---- MODULE Spec2Model ----
(***************************************************************************)
(* A state-machine model of the CRM single page application               *)
(* (src/unnamed/part_001, the current version of src/index.tsx).           *)
(*                                                                         *)
(* Representation.                                                         *)
(*   - A JavaScript string is a tuple of one-character strings, so that    *)
(*     trim() and the emptiness tests of the code are computed, not        *)
(*     assumed.  '' is << >>.                                              *)
(*   - A calendar date 'YYYY-MM-DD' is its day number and an ISO           *)
(*     timestamp is a tick number; DateOf(ts) is                           *)
(*     ts.split('T')[0].  JsNull stands for null in the fields that may    *)
(*     hold it (reminderDate, logo, editingCustomerId).                    *)
(*   - crypto.randomUUID() is a counter: every call yields a value never   *)
(*     produced before.                                                    *)
(*   - A JSON text is its syntax tree (JNull, JStr, JArr, JObj ...), or    *)
(*     JBad for a text JSON.parse rejects.  JSON.parse yields tagged       *)
(*     JavaScript values on which the guards of the code (truthiness,      *)
(*     Array.isArray, member lookup) are computed.                         *)
(***************************************************************************)
EXTENDS Integers, Sequences, FiniteSets, TLC

VARIABLES
    customers,          \* App: useLocalStorage('crm_customers')
    settings,           \* App: useLocalStorage('crm_settings')
    currentView,        \* App: currentView
    editingCustomerId,  \* App: editingCustomerId
    isFormDirty,        \* App: isFormDirty
    formData,           \* CustomerForm: formData
    isEditing,          \* CustomerForm: isEditing
    editingNoteId,      \* CustomerForm: editingNoteId
    quickSelected,      \* QuickNote: selectedCustomer
    isRoiModalOpen,     \* Dashboard: isRoiModalOpen
    roiSelected,        \* ROICalculator: selectedCustomer
    reads,              \* FileReader reads started and not yet completed
    download,           \* the backup file written by the last handleExport
    uuid,               \* number of crypto.randomUUID() values handed out
    now,                \* the clock read by new Date()
    localStorage,       \* window.localStorage: the items of the two store keys
    quota,              \* the room window.localStorage has for these items
    currentUser,        \* App: useLocalStorage('crm_current_user')
    worker,             \* service worker: its place in its life cycle
    cache,              \* service worker: the cache named CACHE_NAME
    server,             \* the network: the version of each asset it serves
    fetches,            \* service worker: fetch events not yet answered or stored
    last                \* the handler that ran last, with its arguments

vars == <<customers, settings, currentView, editingCustomerId, isFormDirty,
          formData, isEditing, editingNoteId, quickSelected, isRoiModalOpen,
          roiSelected, reads, download, uuid, now, localStorage, quota,
          currentUser, worker, cache, server, fetches, last>>

\* the state of the service worker and of the network it fetches from
workerVars == <<worker, cache, server, fetches>>

----------------------------------------------------------------------------
(* Bounds of the model *)

MaxUuid == 3
MaxCustomers == 2
MaxNow == 2
MaxReads == 1
MaxInFlight == 2
TicksPerDay == 2

----------------------------------------------------------------------------
(* JavaScript values *)

JsNull == -1

\* '' in a date field: the value of a date input that was cleared
EmptyDate == -2

\* a text in a date field that new Date() cannot parse
InvalidDate == -3

\* the truthiness of a date field: null and '' are falsy
HasDate(date) == date \notin {JsNull, EmptyDate}

Range(s) == {s[i] : i \in DOMAIN s}

IsSpace(ch) == ch \in {" ", "\t", "\n"}

RECURSIVE TrimStart(_)
TrimStart(s) ==
    IF s # << >> /\ IsSpace(Head(s)) THEN TrimStart(Tail(s)) ELSE s

RECURSIVE TrimEnd(_)
TrimEnd(s) ==
    IF s # << >> /\ IsSpace(s[Len(s)])
    THEN TrimEnd(SubSeq(s, 1, Len(s) - 1))
    ELSE s

\* String.prototype.trim
Trim(s) == TrimEnd(TrimStart(s))

\* new Date().toISOString() and its date portion .split('T')[0]
DateOf(ts) == ts \div TicksPerDay
Today == DateOf(now)

----------------------------------------------------------------------------
(* App: the customer store *)

\* App.saveCustomer, the updater handed to setCustomers
saveCustomerAlwaysAppend(prevCustomers, customer) ==
    Append(prevCustomers, customer)

saveCustomerMerge(prevCustomers, customer) ==
    IF \E i \in DOMAIN prevCustomers : prevCustomers[i].id = customer.id
    THEN [i \in DOMAIN prevCustomers |->
            IF prevCustomers[i].id = customer.id
            THEN [customer EXCEPT !.notes = prevCustomers[i].notes]
            ELSE prevCustomers[i]]
    ELSE Append(prevCustomers, customer)

saveCustomer(prevCustomers, customer) ==
    IF \E i \in DOMAIN prevCustomers : prevCustomers[i].id = customer.id
    THEN [i \in DOMAIN prevCustomers |->
            IF prevCustomers[i].id = customer.id THEN customer
            ELSE prevCustomers[i]]
    ELSE Append(prevCustomers, customer)

\* App.deleteCustomer, the updater handed to setCustomers
deleteCustomerFirstOnly(prevCustomers, id) ==
    IF \E i \in DOMAIN prevCustomers : prevCustomers[i].id = id
    THEN LET k == CHOOSE i \in DOMAIN prevCustomers :
                    /\ prevCustomers[i].id = id
                    /\ \A j \in 1..(i - 1) : prevCustomers[j].id # id
         IN SubSeq(prevCustomers, 1, k - 1)
              \o SubSeq(prevCustomers, k + 1, Len(prevCustomers))
    ELSE prevCustomers

deleteCustomerOrTail(prevCustomers, id) ==
    IF \E i \in DOMAIN prevCustomers : prevCustomers[i].id = id
    THEN LET Keep(c) == c.id # id IN SelectSeq(prevCustomers, Keep)
    ELSE IF prevCustomers = << >> THEN << >> ELSE Tail(prevCustomers)

deleteCustomer(prevCustomers, id) ==
    LET Keep(c) == c.id # id IN SelectSeq(prevCustomers, Keep)

----------------------------------------------------------------------------
(* Data types *)

Acme == <<"A", "c", "m", "e">>
MeineFirma == <<"M", "e", "i", "n", "e", " ", "F", "i", "r", "m", "a">>
Google == <<"G", "o", "o", "g", "l", "e">>
Empfehlung == <<"E", "m", "p", "f", "e", "h", "l", "u", "n", "g">>
Messe == <<"M", "e", "s", "s", "e">>
Sonstiges == <<"S", "o", "n", "s", "t", "i", "g", "e", "s">>

\* App: the initialValue of useLocalStorage('crm_settings')
DefaultSettings ==
    [companyName |-> MeineFirma, logo |-> JsNull,
     customerSources |-> <<Google, Empfehlung, Messe, Sonstiges>>]

\* interface Customer, every field but id and notes (the form's formData)
BlankFields ==
    [companyName |-> << >>, contactPerson |-> << >>, address |-> << >>,
     email |-> << >>, phone |-> << >>, source |-> << >>,
     lastContact |-> 0, firstContact |-> 0, industry |-> << >>,
     nextSteps |-> << >>, reminderDate |-> JsNull, sjSeen |-> FALSE,
     info |-> << >>, inactive |-> FALSE, additionalContacts |-> << >>]

FormKeys == DOMAIN BlankFields

\* the object literal { id, ...fields, notes }
Customer(id, fields, notes) ==
    [k \in FormKeys \cup {"id", "notes"} |->
        IF k = "id" THEN id
        ELSE IF k = "notes" THEN notes
        ELSE fields[k]]

\* the object spread { ...customer, key: value }
With(customer, key, value) ==
    [k \in DOMAIN customer \cup {key} |-> IF k = key THEN value ELSE customer[k]]

\* settings.customerSources || []
customerSources(s) ==
    IF "customerSources" \in DOMAIN s THEN s.customerSources ELSE << >>

\* customer.notes || []
NotesOf(customer) ==
    IF "notes" \in DOMAIN customer THEN customer.notes ELSE << >>

IdsOf(list) == {list[i].id : i \in DOMAIN list}

Find(list, id) == CHOOSE i \in DOMAIN list :
    /\ list[i].id = id
    /\ \A j \in 1..(i - 1) : list[j].id # id

----------------------------------------------------------------------------
(* JSON texts, JSON.stringify and JSON.parse *)

JBad == [j |-> "bad"]
JNull == [j |-> "null"]
JBool(b) == [j |-> "bool", v |-> b]
JNum(n) == [j |-> "num", v |-> n]
JStr(s) == [j |-> "str", v |-> s]
JArr(items) == [j |-> "arr", v |-> items]
JObj(members) == [j |-> "obj", v |-> members]
JMember(key, value) == [k |-> key, v |-> value]

CustomerKeys ==
    <<"id", "companyName", "contactPerson", "address", "email", "phone",
      "source", "lastContact", "firstContact", "industry", "nextSteps",
      "reminderDate", "notes", "sjSeen", "info", "inactive",
      "additionalContacts">>
NoteKeys == <<"id", "date", "content", "isFuture">>
ContactKeys == <<"id", "name", "email">>
SettingsKeys == <<"companyName", "logo", "customerSources">>
BooleanKeys == {"sjSeen", "inactive", "isFuture"}
NullableKeys == {"reminderDate", "logo"}

\* JSON.stringify writes every own property of an object; null is written
\* as null and false as false
MemberKeptNoFalse(rec, k) ==
    k \in DOMAIN rec /\ (k \in BooleanKeys => rec[k])

MemberKept(rec, k) == k \in DOMAIN rec

PresentKeys(rec, keys) == SelectSeq(keys, LAMBDA k : MemberKept(rec, k))

StringifyScalar(k, v) ==
    IF k \in BooleanKeys THEN JBool(v)
    ELSE IF k \in NullableKeys /\ v = JsNull THEN JNull
    ELSE JStr(v)

StringifyNote(note) ==
    LET p == PresentKeys(note, NoteKeys)
    IN JObj([i \in DOMAIN p |-> JMember(p[i], StringifyScalar(p[i], note[p[i]]))])

StringifyContact(contact) ==
    LET p == PresentKeys(contact, ContactKeys)
    IN JObj([i \in DOMAIN p |->
                JMember(p[i], StringifyScalar(p[i], contact[p[i]]))])

StringifyCustomerField(k, v) ==
    IF k = "notes" THEN JArr([i \in DOMAIN v |-> StringifyNote(v[i])])
    ELSE IF k = "additionalContacts"
    THEN JArr([i \in DOMAIN v |-> StringifyContact(v[i])])
    ELSE StringifyScalar(k, v)

StringifyCustomer(customer) ==
    LET p == PresentKeys(customer, CustomerKeys)
    IN JObj([i \in DOMAIN p |->
                JMember(p[i], StringifyCustomerField(p[i], customer[p[i]]))])

StringifySettingsField(k, v) ==
    IF k = "customerSources" THEN JArr([i \in DOMAIN v |-> JStr(v[i])])
    ELSE StringifyScalar(k, v)

StringifySettings(s) ==
    LET p == PresentKeys(s, SettingsKeys)
    IN JObj([i \in DOMAIN p |->
                JMember(p[i], StringifySettingsField(p[i], s[p[i]]))])

\* JSON.stringify({ customers, settings })
StringifyBackup(cs, s) ==
    JObj(<<JMember("customers",
                   JArr([i \in DOMAIN cs |-> StringifyCustomer(cs[i])])),
           JMember("settings", StringifySettings(s))>>)

\* JSON.parse: the JavaScript value a text denotes.  Of two members with the
\* same key the later one wins.
RECURSIVE ParseValue(_)
ParseValue(t) ==
    CASE t.j = "null" -> [t |-> "null"]
      [] t.j = "bool" -> [t |-> "boolean", v |-> t.v]
      [] t.j = "num" -> [t |-> "number", v |-> t.v]
      [] t.j = "str" -> [t |-> "string", v |-> t.v]
      [] t.j = "arr" ->
            [t |-> "array", v |-> [i \in DOMAIN t.v |-> ParseValue(t.v[i])]]
      [] t.j = "obj" ->
            [t |-> "object",
             v |-> [k \in {t.v[i].k : i \in DOMAIN t.v} |->
                      LET at == CHOOSE i \in DOMAIN t.v :
                                  /\ t.v[i].k = k
                                  /\ \A j \in (i + 1)..Len(t.v) : t.v[j].k # k
                      IN ParseValue(t.v[at].v)]]

JSONparse(text) ==
    IF text.j = "bad" THEN [threw |-> TRUE]
    ELSE [threw |-> FALSE, value |-> ParseValue(text)]

JsUndefined == [t |-> "undefined"]

\* ToBoolean
Truthy(x) ==
    CASE x.t \in {"null", "undefined"} -> FALSE
      [] x.t = "boolean" -> x.v
      [] x.t = "number" -> x.v # 0
      [] x.t = "string" -> x.v # << >>
      [] OTHER -> TRUE

\* the property access x.key
Member(x, key) ==
    IF x.t = "object" /\ key \in DOMAIN x.v THEN x.v[key] ELSE JsUndefined

isArray(x) == x.t = "array"

\* The parsed value as the store holds it: objects are records, arrays
\* are sequences, null is JsNull.
RECURSIVE Stored(_)
Stored(x) ==
    CASE x.t = "null" -> JsNull
      [] x.t = "array" -> [i \in DOMAIN x.v |-> Stored(x.v[i])]
      [] x.t = "object" -> [k \in DOMAIN x.v |-> Stored(x.v[k])]
      [] OTHER -> x.v

----------------------------------------------------------------------------
(* useLocalStorage: the store hook over window.localStorage *)

\* The room of window.localStorage, counted in the tokens of the texts it
\* holds: SmallQuota has room for the settings and an empty customer list
\* only; AmpleQuota stands for a quota that no text of the application
\* reaches, so that setItem never throws under it.
SmallQuota == 30
AmpleQuota == 1000

CustomersKey == "crm_customers"
SettingsKey == "crm_settings"

\* window.localStorage before the first run: getItem yields null (<< >>)
EmptyStorage == [k \in {CustomersKey, SettingsKey} |-> << >>]

\* the length of a text, counted in its tokens: one for a scalar, one for
\* the brackets of an array or object, one for the key of a member
RECURSIVE TextSize(_), SizeFrom(_, _)
TextSize(t) ==
    IF "k" \in DOMAIN t THEN 1 + TextSize(t.v)
    ELSE IF t.j \in {"arr", "obj"} THEN 1 + SizeFrom(t.v, 1)
    ELSE 1

SizeFrom(parts, i) ==
    IF i > Len(parts) THEN 0 ELSE TextSize(parts[i]) + SizeFrom(parts, i + 1)

\* the room the items take
Used(items) ==
    LET Size(k) == IF items[k] = << >> THEN 0 ELSE TextSize(items[k][1])
    IN Size(CustomersKey) + Size(SettingsKey)

\* window.localStorage.setItem(key, text) throws QuotaExceededError
setItemThrows(items, room, key, text) ==
    room # AmpleQuota /\ Used([items EXCEPT ![key] = <<text>>]) > room

\* JSON.stringify(newValue) for the value of the store `key`
Stringify(key, value) ==
    IF key = CustomersKey
    THEN JArr([i \in DOMAIN value |-> StringifyCustomer(value[i])])
    ELSE StringifySettings(value)

\* useLocalStorage.setValue: the updater handed to setStoredValue runs at
\* once; when setItem throws in it the state is not replaced and the catch
\* of setValue swallows the error.
setValueStateFirst(key, currentStoredValue, items, room, newValue) ==
    IF setItemThrows(items, room, key, Stringify(key, newValue))
    THEN [value |-> newValue, items |-> items]
    ELSE [value |-> newValue,
          items |-> [items EXCEPT ![key] = <<Stringify(key, newValue)>>]]

setValue(key, currentStoredValue, items, room, newValue) ==
    IF setItemThrows(items, room, key, Stringify(key, newValue))
    THEN [value |-> currentStoredValue, items |-> items]
    ELSE [value |-> newValue,
          items |-> [items EXCEPT ![key] = <<Stringify(key, newValue)>>]]

\* useLocalStorage: the initial state read from window.localStorage
storedValue(items, key, initialValue) ==
    IF items[key] = << >> THEN initialValue
    ELSE LET parsed == JSONparse(items[key][1])
         IN IF parsed.threw THEN initialValue ELSE Stored(parsed.value)

\* App: the setters of the two stores
setCustomers(value) ==
    LET set == setValue(CustomersKey, customers, localStorage, quota, value)
    IN /\ customers' = set.value
       /\ localStorage' = set.items

setSettings(value) ==
    LET set == setValue(SettingsKey, settings, localStorage, quota, value)
    IN /\ settings' = set.value
       /\ localStorage' = set.items

----------------------------------------------------------------------------
(* Inputs of the model *)

\* what the user types into a note field
NoteInputs == {<< >>, <<" ">>, <<"o", "k">>}

\* the note text ROICalculator.handleAssignToCustomer composes
RoiNote == <<"R", "O", "I">>

\* the prefix of the note Doings.handleComplete writes
Erledigt == <<"A", "u", "f", "g", "a", "b", "e", " ", "e", "r", "l", "e",
              "d", "i", "g", "t", ":", " ">>

\* the "1 Woche" buttons of the form and of the doings list
ReminderDays == {7}

----------------------------------------------------------------------------
(* The login gate, the service worker and the network before the first event *)

\* the identifier the user types into the login screen
Kennung == <<"j", "t">>

\* currentUser is << >> for null and <<text>> for the string `text`.
\* App: if (!currentUser) the login screen is rendered in place of the
\* header and the views
LoggedIn == currentUser # << >> /\ currentUser[1] # << >>

\* the assets the install listener pre-caches
CORE_ASSETS == {"/", "index.html", "index.css"}

\* the requests the page makes: a core asset and one that is not
Requests == {"index.html", "logo.png"}

\* the versions of an asset the network serves in the course of time
MaxVersion == 1

\* the service worker is registered and not yet installed, its cache is
\* empty, and the network serves the first version of every asset
WorkerInit ==
    /\ worker = "installing"
    /\ cache = [request \in {} |-> 0]
    /\ server = [request \in CORE_ASSETS \cup Requests |-> 0]
    /\ fetches = << >>

----------------------------------------------------------------------------
(* The initial state: the first session after the login, nothing in
   localStorage *)

Init ==
    /\ customers = << >>
    /\ settings = DefaultSettings
    /\ currentView = "dashboard"
    /\ editingCustomerId = JsNull
    /\ isFormDirty = FALSE
    /\ formData = BlankFields
    /\ isEditing = FALSE
    /\ editingNoteId = JsNull
    /\ quickSelected = << >>
    /\ isRoiModalOpen = FALSE
    /\ roiSelected = << >>
    /\ reads = << >>
    /\ download = << >>
    /\ uuid = 0
    /\ now = 0
    /\ localStorage = EmptyStorage
    /\ quota = AmpleQuota
    /\ currentUser = <<Kennung>>
    /\ WorkerInit
    /\ last = [op |-> "init"]

----------------------------------------------------------------------------
(* App: navigation, and the state components take when they mount *)

\* CustomerForm.getInitialFormData for the customer with id eid in cs
getInitialFormData(cs, st, eid) ==
    IF eid \in IdsOf(cs)
    THEN LET customer == cs[Find(cs, eid)]
         IN [k \in FormKeys |->
                IF k \notin DOMAIN customer THEN
                    IF k \in {"lastContact", "firstContact"} THEN Today
                    ELSE BlankFields[k]
                ELSE IF k = "source" /\ customer[k] = << >> THEN
                    IF customerSources(st) # << >>
                    THEN customerSources(st)[1] ELSE << >>
                ELSE IF k = "reminderDate" /\ customer[k] = EmptyDate THEN
                    JsNull
                ELSE customer[k]]
    ELSE [BlankFields EXCEPT
            !.source = IF customerSources(st) # << >>
                       THEN customerSources(st)[1] ELSE << >>,
            !.lastContact = Today,
            !.firstContact = Today]

\* CustomerForm's effect on [editingCustomerId, getInitialFormData]
FormSync(cs, st, eid) ==
    /\ isEditing' = (eid = JsNull)
    /\ formData' = getInitialFormData(cs, st, eid)
    /\ isFormDirty' = FALSE

\* The view `view` is rendered with editingCustomerId = eid over the store
\* (cs, st): a component that was not on screen mounts with its initial
\* state, and the state of the components leaving the screen is dropped.
\* A pending read started by a Settings component that unmounts keeps the
\* setters of that component, which no longer have an effect.
ShowWith(view, eid, cs, st, rs) ==
    /\ currentView' = view
    /\ reads' = IF currentView = "settings" /\ view # "settings"
                THEN [i \in DOMAIN rs |-> [rs[i] EXCEPT !.mounted = rs[i].file.kind # "json"]]
                ELSE rs
    /\ editingCustomerId' = eid
    /\ isFormDirty' = FALSE
    /\ IF view = currentView
       THEN UNCHANGED <<formData, isEditing, editingNoteId, quickSelected,
                        isRoiModalOpen, roiSelected>>
       ELSE /\ quickSelected' = << >>
            /\ isRoiModalOpen' = FALSE
            /\ roiSelected' = << >>
            /\ editingNoteId' = JsNull
            /\ IF view = "customerForm"
               THEN /\ isEditing' = (eid = JsNull)
                    /\ formData' = getInitialFormData(cs, st, eid)
               ELSE /\ isEditing' = FALSE
                    /\ formData' = BlankFields

Show(view, eid, cs, st) == ShowWith(view, eid, cs, st, reads)

uiVars == <<currentView, editingCustomerId, isFormDirty, formData, isEditing,
            editingNoteId, quickSelected, isRoiModalOpen, roiSelected, reads>>

\* setView asks its question and the user declines
declined(force, confirm) ==
    ~force /\ currentView = "customerForm" /\ isFormDirty /\ ~confirm

\* a setView that does not wait for the answer to its question
setViewWhateverTheAnswer(view, force, confirm) ==
    Show(view, editingCustomerId, customers, settings)

\* App.setView(view, { force }) with the answer `confirm` to its question
setView(view, force, confirm) ==
    IF ~force /\ currentView = "customerForm" /\ isFormDirty
    THEN IF confirm
         THEN Show(view, editingCustomerId, customers, settings)
         ELSE UNCHANGED uiVars
    ELSE Show(view, editingCustomerId, customers, settings)

\* Header: the Dashboard and Einstellungen buttons
Header_setView ==
    /\ LoggedIn
    /\ ~isRoiModalOpen
    /\ \E view \in {"dashboard", "settings"}, confirm \in BOOLEAN :
          /\ setView(view, FALSE, confirm)
          /\ last' = [op |-> "setView",
                      declined |-> declined(FALSE, confirm)]
    /\ UNCHANGED <<customers, settings, localStorage, download, quota, uuid, now>>
    /\ UNCHANGED <<currentUser, workerVars>>

\* Dashboard: Neuen Kunden anlegen / Kundenliste anzeigen / Offene Doings
Dashboard_navigate ==
    /\ LoggedIn
    /\ currentView = "dashboard" /\ ~isRoiModalOpen
    /\ \/ Show("customerForm", JsNull, customers, settings)
       \/ Show("customerList", editingCustomerId, customers, settings)
       \/ Show("doings", editingCustomerId, customers, settings)
    /\ last' = [op |-> "setView", declined |-> FALSE]
    /\ UNCHANGED <<customers, settings, localStorage, download, quota, uuid, now>>
    /\ UNCHANGED <<currentUser, workerVars>>

\* Doings.openTasks / Dashboard.upcomingDoings: the filter
\* c => c.reminderDate && !c.inactive
IsOpenTaskIgnoringInactive(c) == HasDate(c.reminderDate)

IsOpenTask(c) == HasDate(c.reminderDate) /\ ~c.inactive

\* new Date(date).getTime() of a calendar date
getTime(date) == date * TicksPerDay

\* the comparator (a, b) => new Date(a.reminderDate).getTime()
\*                            - new Date(b.reminderDate).getTime()
\* getTime() of a date that does not parse is NaN, and so is the
\* difference, which Array.prototype.sort takes as +0.
compareReminderDate(a, b) ==
    IF InvalidDate \in {a.reminderDate, b.reminderDate} THEN 0
    ELSE getTime(a.reminderDate) - getTime(b.reminderDate)

\* Array.prototype.sort with that comparator: a stable sort, here the
\* insertion sort the engines run on short arrays.  Each entry moves
\* towards the front past the entries that compare greater.
InsertByReminderDate(sorted, c) ==
    LET notGreater == {i \in DOMAIN sorted :
                          compareReminderDate(sorted[i], c) <= 0}
        k == IF notGreater = {} THEN 0
             ELSE CHOOSE i \in notGreater : \A j \in notGreater : j <= i
    IN SubSeq(sorted, 1, k) \o <<c>> \o SubSeq(sorted, k + 1, Len(sorted))

RECURSIVE sortByReminderDate(_)
sortByReminderDate(list) ==
    IF list = << >> THEN << >>
    ELSE InsertByReminderDate(
             sortByReminderDate(SubSeq(list, 1, Len(list) - 1)),
             list[Len(list)])

\* Doings.openTasks
openTasks(cs) == sortByReminderDate(SelectSeq(cs, IsOpenTask))

\* Dashboard.upcomingDoings: .slice(0, 5) of the filtered and sorted list
PreviewLength == 5

upcomingDoings(cs) ==
    LET sorted == sortByReminderDate(SelectSeq(cs, IsOpenTask))
    IN SubSeq(sorted, 1,
              IF Len(sorted) < PreviewLength THEN Len(sorted)
              ELSE PreviewLength)

\* Dashboard: a click on one of the upcoming doings
Dashboard_openDoing ==
    /\ LoggedIn
    /\ currentView = "dashboard" /\ ~isRoiModalOpen
    /\ \E i \in DOMAIN upcomingDoings(customers) :
          Show("customerForm", upcomingDoings(customers)[i].id,
               customers, settings)
    /\ last' = [op |-> "setView", declined |-> FALSE]
    /\ UNCHANGED <<customers, settings, localStorage, download, quota, uuid, now>>
    /\ UNCHANGED <<currentUser, workerVars>>

----------------------------------------------------------------------------
(* Dashboard: QuickNote and ROICalculator *)

\* QuickNote.searchResults / ROICalculator.searchResults: customer c is
\* listed for some non-empty search term
InSearchResults(c) == ~c.inactive /\ c.companyName # << >>

\* The re-render of the customer form after the store became (cs, st):
\* the form's effect runs when the customer it shows is a new object.
AfterStoreChange(cs, st, renewed, rs) ==
    /\ reads' = rs
    /\ UNCHANGED <<currentView, editingCustomerId, editingNoteId,
                   quickSelected, isRoiModalOpen, roiSelected>>
    /\ IF currentView = "customerForm" /\ renewed
       THEN FormSync(cs, st, editingCustomerId)
       ELSE UNCHANGED <<formData, isEditing, isFormDirty>>

\* QuickNote.handleSelectCustomer
QuickNote_handleSelectCustomer ==
    /\ LoggedIn
    /\ currentView = "dashboard" /\ ~isRoiModalOpen
    /\ quickSelected = << >>
    /\ \E i \in DOMAIN customers :
          /\ InSearchResults(customers[i])
          /\ quickSelected' = <<customers[i]>>
          /\ last' = [op |-> "ui"]
    /\ UNCHANGED <<customers, settings, localStorage, currentView, editingCustomerId,
                   isFormDirty, formData, isEditing, editingNoteId,
                   isRoiModalOpen, roiSelected, reads, download, quota, uuid, now>>
    /\ UNCHANGED <<currentUser, workerVars>>

\* QuickNote: the button that clears the selection
QuickNote_clearSelection ==
    /\ LoggedIn
    /\ currentView = "dashboard" /\ ~isRoiModalOpen
    /\ quickSelected # << >>
    /\ quickSelected' = << >>
    /\ last' = [op |-> "ui"]
    /\ UNCHANGED <<customers, settings, localStorage, currentView, editingCustomerId,
                   isFormDirty, formData, isEditing, editingNoteId,
                   isRoiModalOpen, roiSelected, reads, download, quota, uuid, now>>
    /\ UNCHANGED <<currentUser, workerVars>>

\* the updatedCustomer with the note appended and lastContact left as it is
WithNewNoteOnly(selectedCustomer, noteId, content) ==
    With(selectedCustomer, "notes",
         Append(NotesOf(selectedCustomer),
                [id |-> noteId, date |-> now, content |-> content,
                 isFuture |-> FALSE]))

\* the updatedCustomer of QuickNote.handleSaveNote and of
\* ROICalculator.handleAssignToCustomer
WithNewNote(selectedCustomer, noteId, content) ==
    With(With(selectedCustomer, "lastContact", Today),
         "notes",
         Append(NotesOf(selectedCustomer),
                [id |-> noteId, date |-> now, content |-> content,
                 isFuture |-> FALSE]))

\* QuickNote.handleSaveNote
QuickNote_handleSaveNote ==
    /\ LoggedIn
    /\ currentView = "dashboard" /\ ~isRoiModalOpen
    /\ quickSelected # << >>
    /\ uuid < MaxUuid
    /\ \E noteContent \in NoteInputs :
          /\ Trim(noteContent) # << >>
          /\ setCustomers(saveCustomer(customers,
                 WithNewNote(quickSelected[1], uuid + 1, Trim(noteContent))))
    /\ uuid' = uuid + 1
    /\ quickSelected' = << >>
    /\ last' = [op |-> "addNote", by |-> "QuickNote",
                id |-> quickSelected[1].id, note |-> uuid + 1]
    /\ UNCHANGED <<settings, currentView, editingCustomerId, isFormDirty,
                   formData, isEditing, editingNoteId, isRoiModalOpen,
                   roiSelected, reads, download, quota, now>>
    /\ UNCHANGED <<currentUser, workerVars>>

\* Dashboard: "Rechner oeffnen" mounts the calculator in the modal
Dashboard_openRoiModal ==
    /\ LoggedIn
    /\ currentView = "dashboard" /\ ~isRoiModalOpen
    /\ isRoiModalOpen' = TRUE
    /\ roiSelected' = << >>
    /\ last' = [op |-> "ui"]
    /\ UNCHANGED <<customers, settings, localStorage, currentView, editingCustomerId,
                   isFormDirty, formData, isEditing, editingNoteId,
                   quickSelected, reads, download, quota, uuid, now>>
    /\ UNCHANGED <<currentUser, workerVars>>

\* Modal.onClose: the calculator unmounts
Dashboard_closeRoiModal ==
    /\ LoggedIn
    /\ currentView = "dashboard" /\ isRoiModalOpen
    /\ isRoiModalOpen' = FALSE
    /\ roiSelected' = << >>
    /\ last' = [op |-> "ui"]
    /\ UNCHANGED <<customers, settings, localStorage, currentView, editingCustomerId,
                   isFormDirty, formData, isEditing, editingNoteId,
                   quickSelected, reads, download, quota, uuid, now>>
    /\ UNCHANGED <<currentUser, workerVars>>

\* ROICalculator.handleSelectCustomer
ROICalculator_handleSelectCustomer ==
    /\ LoggedIn
    /\ currentView = "dashboard" /\ isRoiModalOpen
    /\ roiSelected = << >>
    /\ \E i \in DOMAIN customers :
          /\ InSearchResults(customers[i])
          /\ roiSelected' = <<customers[i]>>
          /\ last' = [op |-> "ui"]
    /\ UNCHANGED <<customers, settings, localStorage, currentView, editingCustomerId,
                   isFormDirty, formData, isEditing, editingNoteId,
                   quickSelected, isRoiModalOpen, reads, download, quota, uuid, now>>
    /\ UNCHANGED <<currentUser, workerVars>>

\* ROICalculator: the button that clears the selection
ROICalculator_clearSelection ==
    /\ LoggedIn
    /\ currentView = "dashboard" /\ isRoiModalOpen
    /\ roiSelected # << >>
    /\ roiSelected' = << >>
    /\ last' = [op |-> "ui"]
    /\ UNCHANGED <<customers, settings, localStorage, currentView, editingCustomerId,
                   isFormDirty, formData, isEditing, editingNoteId,
                   quickSelected, isRoiModalOpen, reads, download, quota, uuid, now>>
    /\ UNCHANGED <<currentUser, workerVars>>

\* ROICalculator.handleAssignToCustomer
ROICalculator_handleAssignToCustomer ==
    /\ LoggedIn
    /\ currentView = "dashboard" /\ isRoiModalOpen
    /\ roiSelected # << >>
    /\ uuid < MaxUuid
    /\ setCustomers(saveCustomer(customers,
                        WithNewNote(roiSelected[1], uuid + 1, RoiNote)))
    /\ uuid' = uuid + 1
    /\ roiSelected' = << >>
    /\ last' = [op |-> "addNote", by |-> "ROICalculator",
                id |-> roiSelected[1].id, note |-> uuid + 1]
    /\ UNCHANGED <<settings, currentView, editingCustomerId, isFormDirty,
                   formData, isEditing, editingNoteId, quickSelected,
                   isRoiModalOpen, reads, download, quota, now>>
    /\ UNCHANGED <<currentUser, workerVars>>

----------------------------------------------------------------------------
(* Doings *)

\* an updatedCustomer whose next steps are cleared with the reminder
WithCompletedTaskAndNoNextSteps(customer, noteId) ==
    With(With(With(With(customer, "reminderDate", JsNull),
                   "nextSteps", << >>),
              "notes",
              Append(NotesOf(customer),
                     [id |-> noteId, date |-> now,
                      content |-> Erledigt \o customer.nextSteps])),
         "lastContact", Today)

\* the updatedCustomer of Doings.handleComplete
WithCompletedTask(customer, noteId) ==
    With(With(With(customer, "reminderDate", JsNull),
              "notes",
              Append(NotesOf(customer),
                     [id |-> noteId, date |-> now,
                      content |-> Erledigt \o customer.nextSteps])),
         "lastContact", Today)

\* Doings.handleComplete
Doings_handleComplete ==
    /\ LoggedIn
    /\ currentView = "doings"
    /\ uuid < MaxUuid
    /\ \E i \in DOMAIN customers :
          LET customer == customers[i]
              updatedCustomer == WithCompletedTask(customer, uuid + 1)
          IN /\ IsOpenTask(customer)
             /\ setCustomers(saveCustomer(customers, updatedCustomer))
             /\ last' = [op |-> "addNote", by |-> "Doings",
                         id |-> customer.id, note |-> uuid + 1]
    /\ uuid' = uuid + 1
    /\ UNCHANGED <<settings, download, quota, now>>
    /\ UNCHANGED uiVars
    /\ UNCHANGED <<currentUser, workerVars>>

\* Doings.handleReschedule
Doings_handleReschedule ==
    /\ LoggedIn
    /\ currentView = "doings"
    /\ \E i \in DOMAIN customers, days \in ReminderDays :
          LET customer == customers[i]
          IN /\ IsOpenTask(customer)
             /\ setCustomers(saveCustomer(customers,
                                With(customer, "reminderDate", Today + days)))
             /\ last' = [op |-> "reschedule", id |-> customer.id]
    /\ UNCHANGED <<settings, download, quota, uuid, now>>
    /\ UNCHANGED uiVars
    /\ UNCHANGED <<currentUser, workerVars>>

\* Doings: the link from a task to its customer
Doings_openCustomer ==
    /\ LoggedIn
    /\ currentView = "doings"
    /\ \E i \in DOMAIN customers :
          /\ IsOpenTask(customers[i])
          /\ Show("customerForm", customers[i].id, customers, settings)
    /\ last' = [op |-> "setView", declined |-> FALSE]
    /\ UNCHANGED <<customers, settings, localStorage, download, quota, uuid, now>>
    /\ UNCHANGED <<currentUser, workerVars>>

----------------------------------------------------------------------------
(* CustomerList *)

\* CustomerList: Bearbeiten / the company name link, and Neuen Kunden anlegen
CustomerList_openForm ==
    /\ LoggedIn
    /\ currentView = "customerList"
    /\ \/ \E i \in DOMAIN customers :
             Show("customerForm", customers[i].id, customers, settings)
       \/ Show("customerForm", JsNull, customers, settings)
    /\ last' = [op |-> "setView", declined |-> FALSE]
    /\ UNCHANGED <<customers, settings, localStorage, download, quota, uuid, now>>
    /\ UNCHANGED <<currentUser, workerVars>>

\* CustomerList: Loeschen, with the answer to window.confirm
CustomerList_delete ==
    /\ LoggedIn
    /\ currentView = "customerList"
    /\ \E i \in DOMAIN customers, confirm \in BOOLEAN :
          /\ IF confirm
             THEN setCustomers(deleteCustomer(customers, customers[i].id))
             ELSE UNCHANGED <<customers, localStorage>>
          /\ last' = [op |-> "delete", id |-> customers[i].id,
                      confirm |-> confirm]
    /\ UNCHANGED <<settings, download, quota, uuid, now>>
    /\ UNCHANGED uiVars
    /\ UNCHANGED <<currentUser, workerVars>>

----------------------------------------------------------------------------
(* CustomerForm *)

\* what the user types into the form: <<field name, value>>
FieldInputs ==
    {<<"companyName", << >>>>, <<"companyName", Acme>>}

InfoTabFields ==
    FormKeys \ {"nextSteps", "reminderDate", "additionalContacts"}

showSaveActions == isEditing \/ isFormDirty

formUnchanged ==
    UNCHANGED <<customers, settings, localStorage, currentView, editingCustomerId,
                editingNoteId, quickSelected, isRoiModalOpen, roiSelected,
                reads, download, quota, uuid, now>>

\* CustomerForm.handleChange on a text field
CustomerForm_handleChange ==
    /\ LoggedIn
    /\ currentView = "customerForm"
    /\ \E input \in FieldInputs :
          /\ input[1] \in InfoTabFields => isEditing
          /\ input[1] \notin InfoTabFields => editingCustomerId # JsNull
          /\ formData' = [formData EXCEPT ![input[1]] = input[2]]
    /\ isFormDirty' = TRUE
    /\ last' = [op |-> "ui"]
    /\ UNCHANGED isEditing
    /\ formUnchanged
    /\ UNCHANGED <<currentUser, workerVars>>

\* CustomerForm.handleReminderChange
CustomerForm_handleReminderChange ==
    /\ LoggedIn
    /\ currentView = "customerForm"
    /\ editingCustomerId # JsNull
    /\ \/ \E days \in ReminderDays :
             formData' = [formData EXCEPT !.reminderDate = Today + days]
       \/ /\ HasDate(formData.reminderDate)
          /\ formData' = [formData EXCEPT !.reminderDate = JsNull]
    /\ isFormDirty' = TRUE
    /\ last' = [op |-> "ui"]
    /\ UNCHANGED isEditing
    /\ formUnchanged
    /\ UNCHANGED <<currentUser, workerVars>>

\* a handleSubmit that saves the form data without the notes of the store
existingNotesDropped(cs, id) == << >>

\* the existingNotes of handleSubmit:
\* customers.find(c => c.id === id)?.notes || []
existingNotes(cs, id) ==
    IF id \in IdsOf(cs) THEN NotesOf(cs[Find(cs, id)]) ELSE << >>

\* a handleSubmit that takes every company name
companyNameNeverMissing(data) == FALSE

\* the validation of handleSubmit: !formData.companyName
companyNameMissing(data) == data.companyName = << >>

\* CustomerForm.handleSubmit
CustomerForm_handleSubmit ==
    /\ LoggedIn
    /\ currentView = "customerForm"
    /\ showSaveActions
    /\ IF companyNameMissing(formData)
       THEN /\ last' = [op |-> "submit", alert |-> TRUE]
            /\ UNCHANGED <<customers, localStorage, uuid>>
            /\ UNCHANGED uiVars
       ELSE LET fresh == editingCustomerId = JsNull
                id == IF fresh THEN uuid + 1 ELSE editingCustomerId
                customerData ==
                    Customer(id, formData, existingNotes(customers, id))
            IN /\ fresh => uuid < MaxUuid /\ Len(customers) < MaxCustomers
               /\ setCustomers(saveCustomer(customers, customerData))
               /\ uuid' = IF fresh THEN uuid + 1 ELSE uuid
               /\ editingCustomerId' = id
               /\ FormSync(customers', settings, id)
               /\ last' = [op |-> "submit", alert |-> FALSE, id |-> id,
                           fresh |-> fresh]
               /\ UNCHANGED <<currentView, editingNoteId, quickSelected,
                              isRoiModalOpen, roiSelected, reads>>
    /\ UNCHANGED <<settings, download, quota, now>>
    /\ UNCHANGED <<currentUser, workerVars>>

\* CustomerForm.handleDelete, with the answer to window.confirm
CustomerForm_handleDelete ==
    /\ LoggedIn
    /\ currentView = "customerForm"
    /\ editingCustomerId # JsNull
    /\ \E confirm \in BOOLEAN :
          /\ last' = [op |-> "delete", id |-> editingCustomerId,
                      confirm |-> confirm]
          /\ IF confirm
             THEN /\ setCustomers(deleteCustomer(customers, editingCustomerId))
                  /\ Show("customerList", editingCustomerId, customers',
                          settings)
             ELSE /\ UNCHANGED <<customers, localStorage>>
                  /\ UNCHANGED uiVars
    /\ UNCHANGED <<settings, download, quota, uuid, now>>
    /\ UNCHANGED <<currentUser, workerVars>>

\* CustomerForm.handleCancelEdit
CustomerForm_handleCancelEdit ==
    /\ LoggedIn
    /\ currentView = "customerForm"
    /\ showSaveActions
    /\ IF editingCustomerId # JsNull
       THEN /\ formData' = getInitialFormData(customers, settings,
                                              editingCustomerId)
            /\ isEditing' = FALSE
            /\ isFormDirty' = FALSE
            /\ UNCHANGED <<currentView, editingCustomerId, editingNoteId,
                           quickSelected, isRoiModalOpen, roiSelected, reads>>
       ELSE Show("customerList", editingCustomerId, customers, settings)
    /\ last' = [op |-> "ui"]
    /\ UNCHANGED <<customers, settings, localStorage, download, quota, uuid, now>>
    /\ UNCHANGED <<currentUser, workerVars>>

\* CustomerForm: the Bearbeiten button, setIsEditing(true)
CustomerForm_setIsEditing ==
    /\ LoggedIn
    /\ currentView = "customerForm"
    /\ ~showSaveActions
    /\ editingCustomerId # JsNull
    /\ isEditing' = TRUE
    /\ last' = [op |-> "ui"]
    /\ UNCHANGED <<formData, isFormDirty>>
    /\ formUnchanged
    /\ UNCHANGED <<currentUser, workerVars>>

\* CustomerForm: Zurueck zur Liste, setView('customerList')
CustomerForm_backToList ==
    /\ LoggedIn
    /\ currentView = "customerForm"
    /\ ~showSaveActions \/ editingCustomerId # JsNull
    /\ \E confirm \in BOOLEAN :
          /\ setView("customerList", FALSE, confirm)
          /\ last' = [op |-> "setView",
                      declined |-> declined(FALSE, confirm)]
    /\ UNCHANGED <<customers, settings, localStorage, download, quota, uuid, now>>
    /\ UNCHANGED <<currentUser, workerVars>>

----------------------------------------------------------------------------
(* CustomerForm: the history tab *)

IsFutureNote(note) == "isFuture" \in DOMAIN note /\ note.isFuture

\* the updatedCustomer with the note appended and lastContact left as it is
WithAddedNoteOnly(customer, noteId, newNote) ==
    With(customer, "notes",
         Append(NotesOf(customer),
                [id |-> noteId, date |-> now, content |-> newNote]))

\* the updatedCustomer of CustomerForm.handleAddNote
WithAddedNote(customer, noteId, newNote) ==
    With(With(customer, "lastContact", Today),
         "notes",
         Append(NotesOf(customer),
                [id |-> noteId, date |-> now, content |-> newNote]))

\* CustomerForm.handleAddNote
CustomerForm_handleAddNote ==
    /\ LoggedIn
    /\ currentView = "customerForm"
    /\ editingCustomerId \in IdsOf(customers)
    /\ uuid < MaxUuid
    /\ \E newNote \in NoteInputs :
          LET customer == customers[Find(customers, editingCustomerId)]
              updatedCustomer == WithAddedNote(customer, uuid + 1, newNote)
          IN /\ Trim(newNote) # << >>
             /\ setCustomers(saveCustomer(customers, updatedCustomer))
    /\ uuid' = uuid + 1
    /\ FormSync(customers', settings, editingCustomerId)
    /\ last' = [op |-> "addNote", by |-> "CustomerForm",
                id |-> editingCustomerId, note |-> uuid + 1]
    /\ UNCHANGED <<settings, currentView, editingCustomerId, editingNoteId,
                   quickSelected, isRoiModalOpen, roiSelected, reads,
                   download, quota, now>>
    /\ UNCHANGED <<currentUser, workerVars>>

\* CustomerForm.handleStartEditNote, and Abbrechen of the note editor
CustomerForm_handleStartEditNote ==
    /\ LoggedIn
    /\ currentView = "customerForm"
    /\ editingCustomerId \in IdsOf(customers)
    /\ \/ \E note \in Range(NotesOf(customers[Find(customers,
                                                   editingCustomerId)])) :
             /\ ~IsFutureNote(note)
             /\ editingNoteId' = note.id
             /\ isFormDirty' = TRUE
       \/ /\ editingNoteId # JsNull
          /\ editingNoteId' = JsNull
          /\ UNCHANGED isFormDirty
    /\ last' = [op |-> "ui"]
    /\ UNCHANGED <<customers, settings, localStorage, currentView, editingCustomerId,
                   formData, isEditing, quickSelected, isRoiModalOpen,
                   roiSelected, reads, download, quota, uuid, now>>
    /\ UNCHANGED <<currentUser, workerVars>>

\* the newLastContact of CustomerForm.handleSaveNote without the sort: the
\* date of the first note that is not a future one
newLastContactUnsorted(customer, updatedNotes) ==
    LET past == SelectSeq(updatedNotes, LAMBDA n : ~IsFutureNote(n))
    IN IF past = << >> THEN customer.lastContact ELSE DateOf(past[1].date)

\* the newLastContact of CustomerForm.handleSaveNote
newLastContact(customer, updatedNotes) ==
    LET past == SelectSeq(updatedNotes, LAMBDA n : ~IsFutureNote(n))
    IN IF past = << >> THEN customer.lastContact
       ELSE DateOf(CHOOSE d \in {past[i].date : i \in DOMAIN past} :
                      \A i \in DOMAIN past : past[i].date <= d)

\* the instants the user sets the date of the note editor to
EditingDates == {0, MaxNow}

\* CustomerForm.handleSaveNote(editingNoteId), the user having set the
\* editor's date to the instant editingDate
CustomerForm_handleSaveNote ==
    /\ LoggedIn
    /\ currentView = "customerForm"
    /\ editingCustomerId \in IdsOf(customers)
    /\ editingNoteId # JsNull
    /\ \E editingDate \in EditingDates :
          LET customer == customers[Find(customers, editingCustomerId)]
              updatedNotes ==
                 [i \in DOMAIN customer.notes |->
                    IF customer.notes[i].id = editingNoteId
                    THEN With(customer.notes[i], "date", editingDate)
                    ELSE customer.notes[i]]
              updatedCustomer ==
                 With(With(customer, "notes", updatedNotes),
                      "lastContact", newLastContact(customer, updatedNotes))
          IN /\ editingNoteId \in IdsOf(customer.notes)
             /\ setCustomers(saveCustomer(customers, updatedCustomer))
    /\ editingNoteId' = JsNull
    /\ FormSync(customers', settings, editingCustomerId)
    /\ last' = [op |-> "saveNote", id |-> editingCustomerId,
                note |-> editingNoteId,
                was |-> customers[Find(customers, editingCustomerId)]
                           .lastContact]
    /\ UNCHANGED <<settings, currentView, editingCustomerId, quickSelected,
                   isRoiModalOpen, roiSelected, reads, download, quota, uuid, now>>
    /\ UNCHANGED <<currentUser, workerVars>>

\* CustomerForm.handleChange on the fields of the doings tab: the textarea
\* of the next steps, where the user types two lines, and the date input,
\* which hands over '' when its date is cleared
TaskInputs ==
    {<<"nextSteps", <<"o", "\n", "k">>>>, <<"reminderDate", 1>>,
     <<"reminderDate", EmptyDate>>}

CustomerForm_handleChange_doingsTab ==
    /\ LoggedIn
    /\ currentView = "customerForm"
    /\ editingCustomerId # JsNull
    /\ \E input \in TaskInputs :
          /\ (input[1] = "reminderDate" /\ input[2] = EmptyDate)
                => HasDate(formData.reminderDate)
          /\ formData' = [formData EXCEPT ![input[1]] = input[2]]
    /\ isFormDirty' = TRUE
    /\ last' = [op |-> "ui"]
    /\ UNCHANGED isEditing
    /\ formUnchanged
    /\ UNCHANGED <<currentUser, workerVars>>

----------------------------------------------------------------------------
(* CustomerForm: the combined history *)

\* the id 'reminder' of the entry that stands for the open task
ReminderId == -4

NaechsteAufgabe == <<"N", "a", "e", "c", "h", "s", "t", "e", " ", "A", "u",
                     "f", "g", "a", "b", "e", ":", " ">>

\* new Date(item.date).getTime(): the date of a note is an instant, the
\* date of the open task is a day
HistoryTime(item) ==
    IF item.id = ReminderId THEN getTime(item.date) ELSE item.date

\* historyItems.sort((a, b) => time(b) - time(a)), one step: the sort is
\* stable, an item goes behind the items that are not earlier than it
InsertByDateDescending(sorted, item) ==
    LET notEarlier == {i \in DOMAIN sorted :
                         HistoryTime(sorted[i]) >= HistoryTime(item)}
        at == IF notEarlier = {} THEN 0
              ELSE CHOOSE i \in notEarlier : \A j \in notEarlier : j <= i
    IN SubSeq(sorted, 1, at) \o <<item>> \o SubSeq(sorted, at + 1, Len(sorted))

RECURSIVE sortByDateDescending(_)
sortByDateDescending(items) ==
    IF items = << >> THEN << >>
    ELSE InsertByDateDescending(
             sortByDateDescending(SubSeq(items, 1, Len(items) - 1)),
             items[Len(items)])

\* the historyItems of getCombinedHistory before the sort
historyItems(customer) ==
    IF customer.nextSteps # << >> /\ HasDate(customer.reminderDate)
    THEN Append(NotesOf(customer),
                [id |-> ReminderId, date |-> customer.reminderDate,
                 content |-> NaechsteAufgabe \o customer.nextSteps,
                 isFuture |-> TRUE])
    ELSE NotesOf(customer)

\* CustomerForm.getCombinedHistory with push and sort applied to
\* customer.notes itself
getCombinedHistoryInPlace(customer) ==
    [items |-> sortByDateDescending(historyItems(customer)),
     notes |-> sortByDateDescending(historyItems(customer))]

\* CustomerForm.getCombinedHistory: the entries it returns, and
\* customer.notes after the call; push and sort act on a copy of the notes
getCombinedHistory(customer) ==
    [items |-> sortByDateDescending(historyItems(customer)),
     notes |-> NotesOf(customer)]

\* CustomerForm renders the history tab
CustomerForm_getCombinedHistory ==
    /\ LoggedIn
    /\ currentView = "customerForm"
    /\ editingCustomerId \in IdsOf(customers)
    /\ LET at == Find(customers, editingCustomerId)
           history == getCombinedHistory(customers[at])
       IN /\ customers' = [customers EXCEPT
                             ![at] = With(customers[at], "notes",
                                          history.notes)]
          /\ last' = [op |-> "history", id |-> editingCustomerId,
                      items |-> history.items,
                      notes |-> NotesOf(customers[at])]
    /\ UNCHANGED <<settings, localStorage, download, quota, uuid, now>>
    /\ UNCHANGED uiVars
    /\ UNCHANGED <<currentUser, workerVars>>

----------------------------------------------------------------------------
(* Settings: company name and source labels *)

Web == <<"W", "e", "b">>

\* what the user types into the new-source field
SourceInputs == {<< >>, <<" ">>, <<" ", "W", "e", "b", " ">>}

\* what the user types into the company-name field
NameInputs == {<< >>}

settingsUnchanged ==
    UNCHANGED <<customers, currentView, editingCustomerId, isFormDirty,
                formData, isEditing, editingNoteId, quickSelected,
                isRoiModalOpen, roiSelected, reads, download, quota, uuid, now>>

\* Settings.handleNameChange
Settings_handleNameChange ==
    /\ LoggedIn
    /\ currentView = "settings"
    /\ \E value \in NameInputs :
          /\ setSettings(With(settings, "companyName", value))
          /\ last' = [op |-> "nameChange"]
    /\ settingsUnchanged
    /\ UNCHANGED <<currentUser, workerVars>>

\* Settings.handleAddSource: the update it makes to the settings
addSourceNoDuplicateTest(st, newSource) ==
    LET trimmedSource == Trim(newSource)
    IN IF trimmedSource # << >>
       THEN With(st, "customerSources",
                 Append(customerSources(st), trimmedSource))
       ELSE st

addSource(st, newSource) ==
    LET trimmedSource == Trim(newSource)
    IN IF trimmedSource # << >>
          /\ trimmedSource \notin Range(customerSources(st))
       THEN With(st, "customerSources",
                 Append(customerSources(st), trimmedSource))
       ELSE st

Settings_handleAddSource ==
    /\ LoggedIn
    /\ currentView = "settings"
    /\ \E newSource \in SourceInputs :
          /\ IF addSource(settings, newSource) # settings
             THEN setSettings(addSource(settings, newSource))
             ELSE UNCHANGED <<settings, localStorage>>
          /\ last' = [op |-> "addSource", text |-> newSource,
                      added |-> settings' # settings]
    /\ settingsUnchanged
    /\ UNCHANGED <<currentUser, workerVars>>

\* a handleDeleteSource that takes the first label off the list, whichever
\* label was asked for
deleteSourceFirstLabel(st, sourceToDelete, confirm) ==
    IF Len(customerSources(st)) <= 1 THEN st
    ELSE IF confirm
    THEN With(st, "customerSources", Tail(customerSources(st)))
    ELSE st

\* Settings.handleDeleteSource: the update it makes to the settings, given
\* the answer to window.confirm
deleteSource(st, sourceToDelete, confirm) ==
    IF Len(customerSources(st)) <= 1 THEN st
    ELSE IF confirm
    THEN With(st, "customerSources",
              SelectSeq(customerSources(st), LAMBDA x : x # sourceToDelete))
    ELSE st

Settings_handleDeleteSource ==
    /\ LoggedIn
    /\ currentView = "settings"
    /\ \E i \in DOMAIN customerSources(settings), confirm \in BOOLEAN :
          /\ IF Len(customerSources(settings)) > 1 /\ confirm
             THEN setSettings(deleteSource(settings,
                                  customerSources(settings)[i], confirm))
             ELSE UNCHANGED <<settings, localStorage>>
          /\ last' = [op |-> "deleteSource",
                      text |-> customerSources(settings)[i],
                      alert |-> Len(customerSources(settings)) <= 1]
    /\ settingsUnchanged
    /\ UNCHANGED <<currentUser, workerVars>>

\* Settings: the Fertig button
Settings_done ==
    /\ LoggedIn
    /\ currentView = "settings"
    /\ Show("dashboard", editingCustomerId, customers, settings)
    /\ last' = [op |-> "setView", declined |-> FALSE]
    /\ UNCHANGED <<customers, settings, localStorage, download, quota, uuid, now>>
    /\ UNCHANGED <<currentUser, workerVars>>

----------------------------------------------------------------------------
(* Settings: CSV and spreadsheet import *)

UpperChars == <<"A", "B", "C", "D", "E", "F", "G", "H", "I", "J", "K", "L",
                "M", "N", "O", "P", "Q", "R", "S", "T", "U", "V", "W", "X",
                "Y", "Z">>
LowerChars == <<"a", "b", "c", "d", "e", "f", "g", "h", "i", "j", "k", "l",
                "m", "n", "o", "p", "q", "r", "s", "t", "u", "v", "w", "x",
                "y", "z">>

\* String.prototype.toLowerCase
toLowerCase(text) ==
    [i \in DOMAIN text |->
        IF \E k \in DOMAIN UpperChars : UpperChars[k] = text[i]
        THEN LowerChars[CHOOSE k \in DOMAIN UpperChars : UpperChars[k] = text[i]]
        ELSE text[i]]

\* x?.toLowerCase() === 'ja' || x?.toLowerCase() === 'yes'
IsYes(text) == toLowerCase(text) \in {<<"j", "a">>, <<"y", "e", "s">>}

\* new Date(text): in the model the text of the date of day n is the decimal
\* numeral of n, and every other text is an Invalid Date
Digits == <<"0", "1", "2", "3", "4", "5", "6", "7", "8", "9">>

IsDateText(text) ==
    text # << >> /\ \A i \in DOMAIN text : text[i] \in Range(Digits)

RECURSIVE DayOfText(_)
DayOfText(text) ==
    IF text = << >> THEN 0
    ELSE 10 * DayOfText(SubSeq(text, 1, Len(text) - 1))
         + (CHOOSE d \in 0..9 : Digits[d + 1] = text[Len(text)])

\* safeFormatDateForStorage without the fallback to today's date
safeFormatDateForStorageNoFallback(dateInput) ==
    IF IsDateText(dateInput) THEN DayOfText(dateInput) ELSE InvalidDate

safeFormatDateForStorage(dateInput) ==
    IF dateInput = << >> THEN Today
    ELSE IF ~IsDateText(dateInput) THEN Today
    ELSE DayOfText(dateInput)

safeFormatNullableDateForStorage(dateInput) ==
    IF \/ dateInput = << >>
       \/ dateInput = <<"n", "u", "l", "l">>
       \/ dateInput = <<"u", "n", "d", "e", "f", "i", "n", "e", "d">>
    THEN JsNull
    ELSE IF ~IsDateText(dateInput) THEN JsNull
    ELSE DayOfText(dateInput)

\* String.prototype.split(separator), the separator being one character
RECURSIVE split(_, _)
split(text, separator) ==
    IF \A i \in DOMAIN text : text[i] # separator THEN <<text>>
    ELSE LET at == CHOOSE i \in DOMAIN text :
                      /\ text[i] = separator
                      /\ \A j \in 1..(i - 1) : text[j] # separator
         IN <<SubSeq(text, 1, at - 1)>>
               \o split(SubSeq(text, at + 1, Len(text)), separator)

\* Array.prototype.join(separator)
RECURSIVE join(_, _)
join(parts, separator) ==
    IF parts = << >> THEN << >>
    ELSE IF Len(parts) = 1 THEN parts[1]
    ELSE parts[1] \o <<separator>> \o join(Tail(parts), separator)

\* field.trim().replace(/"/g, '')
CleanField(field) == SelectSeq(Trim(field), LAMBDA ch : ch # "\"")

\* the n-th name of the destructuring of `fields`, '' standing for undefined
CsvField(line, n) ==
    LET fields == split(line, ",")
    IN IF n <= Len(fields) THEN CleanField(fields[n]) ELSE << >>

OrSonstiges(text) == IF text = << >> THEN Sonstiges ELSE text

\* the object pushed for one line of a .csv file
CsvCustomer(line, id) ==
    [id |-> id,
     companyName |-> CsvField(line, 1),
     contactPerson |-> CsvField(line, 2),
     address |-> CsvField(line, 3),
     email |-> CsvField(line, 4),
     phone |-> CsvField(line, 5),
     source |-> OrSonstiges(CsvField(line, 6)),
     industry |-> CsvField(line, 7),
     nextSteps |-> CsvField(line, 8),
     firstContact |-> safeFormatDateForStorage(CsvField(line, 9)),
     lastContact |-> safeFormatDateForStorage(CsvField(line, 10)),
     sjSeen |-> IsYes(CsvField(line, 11)),
     info |-> CsvField(line, 12),
     inactive |-> IsYes(CsvField(line, 14)),
     reminderDate |-> safeFormatNullableDateForStorage(CsvField(line, 13)),
     notes |-> << >>,
     additionalContacts |-> << >>]

\* !line.trim()
IsBlankLine(line) == Trim(line) = << >>

\* the newCustomers of the .csv branch, ids counting on from `used`
RECURSIVE CsvNewCustomers(_, _)
CsvNewCustomers(lines, used) ==
    IF lines = << >> THEN << >>
    ELSE IF ~IsBlankLine(Head(lines)) /\ CsvField(Head(lines), 1) # << >>
    THEN <<CsvCustomer(Head(lines), used + 1)>>
            \o CsvNewCustomers(Tail(lines), used + 1)
    ELSE CsvNewCustomers(Tail(lines), used)

\* row.name || row.Name || '' of the spreadsheet branch; a row maps the
\* column headers of its non-empty cells to their texts
XlsxCell(row, name, Name) ==
    IF name \in DOMAIN row /\ row[name] # << >> THEN row[name]
    ELSE IF Name \in DOMAIN row /\ row[Name] # << >> THEN row[Name]
    ELSE << >>

\* the object pushed for one row of a spreadsheet
XlsxCustomer(row, id) ==
    [id |-> id,
     companyName |-> XlsxCell(row, "companyName", "CompanyName"),
     contactPerson |-> XlsxCell(row, "contactPerson", "ContactPerson"),
     address |-> XlsxCell(row, "address", "Address"),
     email |-> XlsxCell(row, "email", "Email"),
     phone |-> XlsxCell(row, "phone", "Phone"),
     source |-> OrSonstiges(XlsxCell(row, "source", "Source")),
     industry |-> XlsxCell(row, "industry", "Industry"),
     nextSteps |-> XlsxCell(row, "nextSteps", "NextSteps"),
     firstContact |->
        safeFormatDateForStorage(XlsxCell(row, "firstContact", "FirstContact")),
     lastContact |->
        safeFormatDateForStorage(XlsxCell(row, "lastContact", "LastContact")),
     sjSeen |-> IsYes(XlsxCell(row, "sjSeen", "SjSeen")),
     info |-> XlsxCell(row, "info", "Info"),
     inactive |-> IsYes(XlsxCell(row, "inactive", "Inactive")),
     reminderDate |->
        safeFormatNullableDateForStorage(
            XlsxCell(row, "reminderDate", "ReminderDate")),
     notes |-> << >>,
     additionalContacts |-> << >>]

\* the newCustomers of the spreadsheet branch
RECURSIVE XlsxNewCustomers(_, _)
XlsxNewCustomers(rows, used) ==
    IF rows = << >> THEN << >>
    ELSE IF XlsxCell(Head(rows), "companyName", "CompanyName") # << >>
    THEN <<XlsxCustomer(Head(rows), used + 1)>>
            \o XlsxNewCustomers(Tail(rows), used + 1)
    ELSE XlsxNewCustomers(Tail(rows), used)

\* the newCustomers reader.onload builds from the file
NewCustomers(file, used) ==
    IF file.kind = "csv" THEN CsvNewCustomers(Tail(split(file.text, "\n")), used)
    ELSE IF file.kind = "xlsx" THEN XlsxNewCustomers(file.rows, used)
    ELSE << >>

----------------------------------------------------------------------------
(* Settings: the files the user picks *)

Quoted(text) == <<"\"">> \o text \o <<"\"">>

CsvHeader == <<"c", "o", "m", "p", "a", "n", "y">>

\* A .csv file: its text, and the company names its author put into its
\* data rows.
CsvFile(text, names) == [kind |-> "csv", text |-> text, names |-> names]

\* a customer line with a quoted name, an empty line, a line without a
\* company name, and a second customer line
CsvTwoCustomers ==
    CsvFile(join(<<CsvHeader,
                   join(<<Quoted(Acme), << >>, << >>, << >>, << >>, Google>>,
                        ","),
                   << >>,
                   join(<<<< >>, Acme>>, ","),
                   join(<<<<" ">> \o Web, << >>, << >>, << >>, << >>,
                          Google>>, ",")>>,
                 "\n"),
            <<Acme, << >>, << >>, <<" ">> \o Web>>)

\* a sheet with a row headed CompanyName and a row without a company name
XlsxOneCustomer ==
    [kind |-> "xlsx",
     rows |-> <<[CompanyName |-> Web, source |-> Google],
                [companyName |-> << >>, contactPerson |-> Acme]>>,
     names |-> <<Web, << >>>>]

\* a file whose name ends in neither .csv nor .xls/.xlsx
OtherFile == [kind |-> "other", names |-> << >>]

ImportFiles == <<CsvTwoCustomers, XlsxOneCustomer, OtherFile>>

\* Files whose rows carry contact dates.  `dates` is what the author of the
\* file put into each row: the company name and the two dates, a day number
\* for a date, InvalidDate for a text that is no date and JsNull for a
\* date the row does not have.
NotADate == <<"n", "o", "t", "-", "a", "-", "d", "a", "t", "e">>

\* a row whose firstContact is no date, and a shorter row without lastContact
CsvMalformedDates ==
    [kind |-> "csv",
     text |-> join(<<CsvHeader,
                     join(<<Acme, << >>, << >>, << >>, << >>, << >>, << >>,
                            << >>, NotADate, <<"1">>>>, ","),
                     join(<<Web, << >>, << >>, << >>, << >>, << >>, << >>,
                            << >>, <<"0">>>>, ",")>>,
                   "\n"),
     names |-> <<Acme, Web>>,
     dates |-> <<[first |-> InvalidDate, last |-> 1],
                 [first |-> 0, last |-> JsNull]>>]

\* the same two rows with a date in every place
CsvWellFormedDates ==
    [kind |-> "csv",
     text |-> join(<<CsvHeader,
                     join(<<Acme, << >>, << >>, << >>, << >>, << >>, << >>,
                            << >>, <<"0">>, <<"1">>>>, ","),
                     join(<<Web, << >>, << >>, << >>, << >>, << >>, << >>,
                            << >>, <<"0">>, <<"1">>>>, ",")>>,
                   "\n"),
     names |-> <<Acme, Web>>,
     dates |-> <<[first |-> 0, last |-> 1], [first |-> 0, last |-> 1]>>]

\* a sheet with a row whose LastContact is no date and a row without dates
XlsxMalformedDates ==
    [kind |-> "xlsx",
     rows |-> <<[companyName |-> Acme, firstContact |-> <<"1">>,
                 LastContact |-> NotADate],
                [CompanyName |-> Web]>>,
     names |-> <<Acme, Web>>,
     dates |-> <<[first |-> 1, last |-> InvalidDate],
                 [first |-> JsNull, last |-> JsNull]>>]

DatedFiles == <<CsvMalformedDates, CsvWellFormedDates, XlsxMalformedDates>>

\* a .csv file with one customer line
CsvOneCustomer ==
    CsvFile(join(<<CsvHeader, join(<<Acme, Web>>, ",")>>, "\n"), <<Acme>>)

\* the files of two imports that are under way at the same time
ConcurrentFiles == <<CsvOneCustomer, XlsxOneCustomer>>

\* Backup files not written by this version of handleExport.
\* A customer without a company name:
NamelessBackup ==
    StringifyBackup(<<Customer(0, BlankFields, << >>)>>, DefaultSettings)

\* A backup of the earlier version (src/index.tsx), whose settings hold no
\* customerSources:
LegacyBackup ==
    JObj(<<JMember("customers", JArr(<< >>)),
           JMember("settings",
                   JObj(<<JMember("companyName", JStr(MeineFirma)),
                          JMember("logo", JNull)>>))>>)

\* A backup with three open tasks, the second with a reminder date that
\* is not a date:
UndatedBackup ==
    StringifyBackup(
        [i \in 1..3 |->
            Customer(i, [BlankFields EXCEPT
                            !.companyName = Acme,
                            !.reminderDate = <<1, InvalidDate, 0>>[i]],
                     << >>)],
        DefaultSettings)

BackupTexts ==
    <<JBad,
      JNull,
      JObj(<<JMember("settings", StringifySettings(DefaultSettings))>>),
      JObj(<<JMember("customers", JArr(<< >>))>>),
      JObj(<<JMember("customers", JStr(<<"x">>)),
             JMember("settings", StringifySettings(DefaultSettings))>>),
      JObj(<<JMember("customers", JArr(<< >>)), JMember("settings", JNull)>>),
      NamelessBackup,
      LegacyBackup>>

\* a file with the text `text`; origin is the store the text was exported
\* from, << >> for a file that was not exported
BackupFile(text, origin) == [kind |-> "json", text |-> text, origin |-> origin]

Without(s, i) == SubSeq(s, 1, i - 1) \o SubSeq(s, i + 1, Len(s))

----------------------------------------------------------------------------
(* Settings: CSV export *)

\* the headers of handleCsvExport
csvHeaders ==
    <<<<"c", "o", "m", "p", "a", "n", "y", "N", "a", "m", "e">>,
      <<"c", "o", "n", "t", "a", "c", "t", "P", "e", "r", "s", "o", "n">>,
      <<"a", "d", "d", "r", "e", "s", "s">>,
      <<"e", "m", "a", "i", "l">>,
      <<"p", "h", "o", "n", "e">>,
      <<"s", "o", "u", "r", "c", "e">>,
      <<"i", "n", "d", "u", "s", "t", "r", "y">>,
      <<"n", "e", "x", "t", "S", "t", "e", "p", "s">>,
      <<"f", "i", "r", "s", "t", "C", "o", "n", "t", "a", "c", "t">>,
      <<"l", "a", "s", "t", "C", "o", "n", "t", "a", "c", "t">>,
      <<"s", "j", "S", "e", "e", "n">>,
      <<"i", "n", "f", "o">>,
      <<"r", "e", "m", "i", "n", "d", "e", "r", "D", "a", "t", "e">>,
      <<"i", "n", "a", "c", "t", "i", "v", "e">>>>

\* the text of a date: the decimal numeral of its day, '' for the date ''
\* and a text that is no date for an invalid one
RECURSIVE Numeral(_)
Numeral(n) ==
    IF n < 10 THEN <<Digits[n + 1]>>
    ELSE Numeral(n \div 10) \o <<Digits[(n % 10) + 1]>>

DateText(date) ==
    IF date = EmptyDate THEN << >>
    ELSE IF date = InvalidDate THEN <<"x">>
    ELSE Numeral(date)

\* String(field ?? '') for the fields handleCsvExport writes
FieldText(key, value) ==
    IF key \in {"sjSeen", "inactive"}
    THEN IF value THEN <<"j", "a">> ELSE <<"n", "e", "i", "n">>
    ELSE IF key \in {"firstContact", "lastContact", "reminderDate"}
    THEN IF value = JsNull THEN << >> ELSE DateText(value)
    ELSE value

\* stringField.replace(/"/g, '""')
RECURSIVE doubleQuotes(_)
doubleQuotes(text) ==
    IF text = << >> THEN << >>
    ELSE (IF Head(text) = "\"" THEN <<"\"", "\"">> ELSE <<Head(text)>>)
            \o doubleQuotes(Tail(text))

\* handleCsvExport.escapeCsvField
escapeCsvField(stringField) ==
    IF \E i \in DOMAIN stringField : stringField[i] \in {",", "\"", "\n"}
    THEN Quoted(doubleQuotes(stringField))
    ELSE stringField

\* the fields of the row handleCsvExport makes of a customer
csvRowKeys ==
    <<"companyName", "contactPerson", "address", "email", "phone", "source",
      "industry", "nextSteps", "firstContact", "lastContact", "sjSeen",
      "info", "reminderDate", "inactive">>

\* the row handleCsvExport makes of a customer, before it is escaped
csvRow(customer) ==
    [i \in DOMAIN csvRowKeys |->
        IF csvRowKeys[i] \in DOMAIN customer
        THEN FieldText(csvRowKeys[i], customer[csvRowKeys[i]])
        ELSE << >>]

\* the csvString of handleCsvExport
csvString(cs) ==
    join(<<join(csvHeaders, ",")>>
            \o [i \in DOMAIN cs |->
                   join([k \in DOMAIN csvRowKeys |->
                           escapeCsvField(csvRow(cs[i])[k])], ",")],
         "\n")

\* Settings.handleCsvExport
Settings_handleCsvExport ==
    /\ LoggedIn
    /\ currentView = "settings"
    /\ download' = <<CsvFile(csvString(customers),
                             [i \in DOMAIN customers |->
                                 customers[i].companyName])>>
    /\ last' = [op |-> "export"]
    /\ UNCHANGED <<customers, settings, localStorage, currentView,
                   editingCustomerId, isFormDirty, formData, isEditing,
                   editingNoteId, quickSelected, isRoiModalOpen, roiSelected,
                   reads, quota, uuid, now>>
    /\ UNCHANGED <<currentUser, workerVars>>

\* Settings.handleCsvImport: the user picks the file the last
\* handleCsvExport wrote
Settings_handleCsvImport_exported ==
    /\ LoggedIn
    /\ currentView = "settings"
    /\ Len(reads) < MaxReads
    /\ download # << >>
    /\ download[1].kind = "csv"
    /\ reads' = Append(reads, [file |-> download[1], mounted |-> TRUE])
    /\ last' = [op |-> "ui"]
    /\ UNCHANGED <<customers, settings, localStorage, currentView,
                   editingCustomerId, isFormDirty, formData, isEditing,
                   editingNoteId, quickSelected, isRoiModalOpen, roiSelected,
                   download, quota, uuid, now>>
    /\ UNCHANGED <<currentUser, workerVars>>

----------------------------------------------------------------------------
(* Settings: import, export and restore *)

\* Settings.handleCsvImport: the read of the picked file starts
Settings_handleCsvImport ==
    /\ LoggedIn
    /\ currentView = "settings"
    /\ Len(reads) < MaxReads
    /\ \E i \in DOMAIN ImportFiles :
          reads' = Append(reads, [file |-> ImportFiles[i], mounted |-> TRUE])
    /\ last' = [op |-> "ui"]
    /\ UNCHANGED <<customers, settings, localStorage, currentView, editingCustomerId,
                   isFormDirty, formData, isEditing, editingNoteId,
                   quickSelected, isRoiModalOpen, roiSelected, download, quota, uuid,
                   now>>
    /\ UNCHANGED <<currentUser, workerVars>>

\* Settings.handleCsvImport: the user picks a file with contact dates
Settings_handleCsvImport_dated ==
    /\ LoggedIn
    /\ currentView = "settings"
    /\ Len(reads) < MaxReads
    /\ \E i \in DOMAIN DatedFiles :
          reads' = Append(reads, [file |-> DatedFiles[i], mounted |-> TRUE])
    /\ last' = [op |-> "ui"]
    /\ UNCHANGED <<customers, settings, localStorage, currentView,
                   editingCustomerId, isFormDirty, formData, isEditing,
                   editingNoteId, quickSelected, isRoiModalOpen, roiSelected,
                   download, quota, uuid, now>>
    /\ UNCHANGED <<currentUser, workerVars>>

\* Settings.handleCsvImport while another read may be under way: the file
\* input stays enabled, so a second read can start before the first has
\* completed.  The closure of reader.onload holds the `customers` prop of
\* the render in which the file was picked.
Settings_handleCsvImport_concurrent ==
    /\ LoggedIn
    /\ currentView = "settings"
    /\ Len(reads) < MaxInFlight
    /\ \E i \in DOMAIN ConcurrentFiles :
          reads' = Append(reads, [file |-> ConcurrentFiles[i],
                                  mounted |-> TRUE,
                                  customers |-> customers])
    /\ last' = [op |-> "ui"]
    /\ UNCHANGED <<customers, settings, localStorage, currentView,
                   editingCustomerId, isFormDirty, formData, isEditing,
                   editingNoteId, quickSelected, isRoiModalOpen, roiSelected,
                   download, quota, uuid, now>>
    /\ UNCHANGED <<currentUser, workerVars>>

\* the updater prev => [...prev, ...newCustomers] with a customer of prev
\* replaced by the imported one of the same company name
appendMergingByName(prev, newCustomers) ==
    LET Same(c, d) == c.companyName = d.companyName
        Merged(c) ==
            IF \E k \in DOMAIN newCustomers : Same(c, newCustomers[k])
            THEN newCustomers[CHOOSE k \in DOMAIN newCustomers :
                                 Same(c, newCustomers[k])]
            ELSE c
    IN [i \in DOMAIN prev |-> Merged(prev[i])]
          \o SelectSeq(newCustomers,
                       LAMBDA d : \A i \in DOMAIN prev : ~Same(prev[i], d))

\* the updater prev => [...prev, ...newCustomers]
appendCustomers(prev, newCustomers) == prev \o newCustomers

\* the list reader.onload would store if it appended to the `customers`
\* prop its closure holds instead of passing an updater
onloadCustomersFromProps(prev, read, newCustomers) ==
    appendCustomers(IF "customers" \in DOMAIN read THEN read.customers
                    ELSE prev,
                    newCustomers)

\* the list reader.onload stores: setCustomers is given an updater, which
\* is applied to the list at the time of the callback
onloadCustomers(prev, read, newCustomers) ==
    appendCustomers(prev, newCustomers)

\* reader.onload of Settings.handleCsvImport
handleCsvImport_onload ==
    \E i \in DOMAIN reads :
       LET file == reads[i].file
           newCustomers == NewCustomers(file, uuid)
       IN /\ file.kind # "json"
          /\ uuid + Len(newCustomers) <= MaxUuid
          /\ Len(customers) + Len(newCustomers) <= MaxCustomers
          /\ IF Len(newCustomers) > 0
             THEN setCustomers(onloadCustomers(customers, reads[i],
                                               newCustomers))
             ELSE UNCHANGED <<customers, localStorage>>
          /\ uuid' = uuid + Len(newCustomers)
          /\ AfterStoreChange(customers', settings, FALSE, Without(reads, i))
          /\ last' = [op |-> "import", count |-> Len(newCustomers),
                      names |-> file.names,
                      dates |-> IF "dates" \in DOMAIN file THEN file.dates
                                ELSE << >>,
                      pending |-> Len(reads) - 1,
                      closure |-> IF "customers" \in DOMAIN reads[i]
                                  THEN <<reads[i].customers>> ELSE << >>]
          /\ UNCHANGED <<settings, download, quota, now, currentUser,
                         workerVars>>

\* Settings.handleExport
Settings_handleExport ==
    /\ LoggedIn
    /\ currentView = "settings"
    /\ download' = <<BackupFile(StringifyBackup(customers, settings),
                                <<customers, settings>>)>>
    /\ last' = [op |-> "export"]
    /\ UNCHANGED <<customers, settings, localStorage, currentView, editingCustomerId,
                   isFormDirty, formData, isEditing, editingNoteId,
                   quickSelected, isRoiModalOpen, roiSelected, reads, quota,
                   uuid, now>>
    /\ UNCHANGED <<currentUser, workerVars>>

\* Settings.handleJsonImport: the read of the picked file starts.  The user
\* picks a file that was not written by handleExport ...
Settings_handleJsonImport_foreign ==
    /\ LoggedIn
    /\ currentView = "settings"
    /\ Len(reads) < MaxReads
    /\ \E i \in DOMAIN BackupTexts :
          reads' = Append(reads, [file |-> BackupFile(BackupTexts[i], << >>),
                                  mounted |-> TRUE])
    /\ last' = [op |-> "ui"]
    /\ UNCHANGED <<customers, settings, localStorage, currentView, editingCustomerId,
                   isFormDirty, formData, isEditing, editingNoteId,
                   quickSelected, isRoiModalOpen, roiSelected, download, quota, uuid,
                   now>>
    /\ UNCHANGED <<currentUser, workerVars>>

\* ... or the backup with a reminder date that is not a date ...
Settings_handleJsonImport_undated ==
    /\ LoggedIn
    /\ currentView = "settings"
    /\ Len(reads) < MaxReads
    /\ reads' = Append(reads, [file |-> BackupFile(UndatedBackup, << >>),
                               mounted |-> TRUE])
    /\ last' = [op |-> "ui"]
    /\ UNCHANGED <<customers, settings, localStorage, currentView,
                   editingCustomerId, isFormDirty, formData, isEditing,
                   editingNoteId, quickSelected, isRoiModalOpen, roiSelected,
                   download, quota, uuid, now>>
    /\ UNCHANGED <<currentUser, workerVars>>

\* ... or the file the last handleExport wrote
Settings_handleJsonImport_exported ==
    /\ LoggedIn
    /\ currentView = "settings"
    /\ Len(reads) < MaxReads
    /\ download # << >>
    /\ download[1].kind = "json"
    /\ reads' = Append(reads, [file |-> download[1], mounted |-> TRUE])
    /\ last' = [op |-> "ui"]
    /\ UNCHANGED <<customers, settings, localStorage, currentView, editingCustomerId,
                   isFormDirty, formData, isEditing, editingNoteId,
                   quickSelected, isRoiModalOpen, roiSelected, download, quota, uuid,
                   now>>
    /\ UNCHANGED <<currentUser, workerVars>>

\* the test reader.onload of Settings.handleJsonImport makes on the parsed
\* data
jsonImportAcceptsNonArray(data) ==
    /\ Truthy(data)
    /\ Truthy(Member(data, "customers"))
    /\ Truthy(Member(data, "settings"))

jsonImportAccepts(data) ==
    /\ Truthy(data)
    /\ isArray(Member(data, "customers"))
    /\ Truthy(Member(data, "settings"))

\* whether CustomerForm's effect runs when the store becomes (cs, st): one
\* of its dependencies [customer, settings.customerSources] is a new object
FormRenewed(cs, st) ==
    \/ editingCustomerId \in IdsOf(customers) \cup IdsOf(cs)
    \/ "customerSources" \in DOMAIN settings \cup DOMAIN st

\* reader.onload of Settings.handleJsonImport, with the answer to
\* window.confirm
handleJsonImport_onload ==
    \E i \in DOMAIN reads :
       LET file == reads[i].file
           parsed == JSONparse(file.text)
           accepted == ~parsed.threw /\ jsonImportAccepts(parsed.value)
           rest == Without(reads, i)
       IN /\ file.kind = "json"
          /\ \E confirm \in (IF accepted THEN BOOLEAN ELSE {FALSE}) :
                /\ IF accepted /\ confirm
                   THEN LET setC == setValue(CustomersKey, customers,
                                        localStorage, quota,
                                        Stored(Member(parsed.value, "customers")))
                            setS == setValue(SettingsKey, settings,
                                        setC.items, quota,
                                        Stored(Member(parsed.value, "settings")))
                        IN
                        /\ customers' = setC.value
                        /\ settings' = setS.value
                        /\ localStorage' = setS.items
                        /\ IF reads[i].mounted
                           THEN ShowWith("dashboard", editingCustomerId,
                                         customers', settings', rest)
                           ELSE AfterStoreChange(customers', settings',
                                    FormRenewed(customers', settings'), rest)
                   ELSE /\ UNCHANGED <<customers, settings, localStorage, currentView,
                                       editingCustomerId, isFormDirty, formData,
                                       isEditing, editingNoteId, quickSelected,
                                       isRoiModalOpen, roiSelected>>
                        /\ reads' = rest
                /\ last' = [op |-> "restore", text |-> file.text,
                            origin |-> file.origin, confirm |-> confirm,
                            alert |-> ~accepted,
                            changed |-> <<customers', settings'>>
                                            # <<customers, settings>>]
          /\ UNCHANGED <<download, quota, uuid, now, currentUser, workerVars>>

----------------------------------------------------------------------------
(* App: the page is loaded again *)

\* The components mount anew: the two stores take what useLocalStorage
\* reads from window.localStorage, every other state its initial value, and
\* the reads of the page that went away are dropped.
App_reload ==
    /\ customers' = storedValue(localStorage, CustomersKey, << >>)
    /\ settings' = storedValue(localStorage, SettingsKey, DefaultSettings)
    /\ currentView' = "dashboard"
    /\ editingCustomerId' = JsNull
    /\ isFormDirty' = FALSE
    /\ formData' = BlankFields
    /\ isEditing' = FALSE
    /\ editingNoteId' = JsNull
    /\ quickSelected' = << >>
    /\ isRoiModalOpen' = FALSE
    /\ roiSelected' = << >>
    /\ reads' = << >>
    /\ last' = [op |-> "reload"]
    /\ UNCHANGED <<localStorage, quota, download, uuid, now>>
    /\ UNCHANGED <<currentUser, workerVars>>

----------------------------------------------------------------------------
(* The login screen and 'Benutzer wechseln' *)

\* what the user types into the identifier input of the login screen
Identifiers == {<< >>, <<" ">>, <<" ", "j", "t", " ">>, <<"m">>}

\* LoginScreen.handleSubmit: the identifier is trimmed and, unless nothing
\* is left of it, becomes the current user.  The item crm_current_user
\* that useLocalStorage writes beside the state is held in the variable
\* currentUser as well; the views mount anew over the state App has kept.
LoginScreen_handleSubmit ==
    /\ ~LoggedIn
    /\ \E identifier \in Identifiers :
          /\ currentUser' = IF Trim(identifier) # << >>
                            THEN <<Trim(identifier)>>
                            ELSE currentUser
          /\ last' = [op |-> "login", identifier |-> identifier]
    /\ UNCHANGED <<customers, settings, localStorage, currentView,
                   editingCustomerId, isFormDirty, formData, isEditing,
                   editingNoteId, quickSelected, isRoiModalOpen, roiSelected,
                   reads, download, quota, uuid, now>>
    /\ UNCHANGED workerVars

\* Settings: the button 'Benutzer wechseln' calls setCurrentUser(null).
\* App renders the login screen in place of the header and the view, so
\* the Settings component unmounts; the reads it started go on, and App,
\* whose setters their callbacks hold, stays mounted.
Settings_switchUser ==
    /\ LoggedIn
    /\ currentView = "settings"
    /\ currentUser' = << >>
    /\ reads' = [i \in DOMAIN reads |->
                    [reads[i] EXCEPT !.mounted = reads[i].file.kind # "json"]]
    /\ last' = [op |-> "switchUser"]
    /\ UNCHANGED <<customers, settings, localStorage, currentView,
                   editingCustomerId, isFormDirty, formData, isEditing,
                   editingNoteId, quickSelected, isRoiModalOpen, roiSelected,
                   download, quota, uuid, now>>
    /\ UNCHANGED workerVars

----------------------------------------------------------------------------
(* The service worker *)

MaxFetches == 2

\* everything but the service worker, the network and `last`
appVars == <<customers, settings, currentView, editingCustomerId, isFormDirty,
             formData, isEditing, editingNoteId, quickSelected,
             isRoiModalOpen, roiSelected, reads, download, uuid, now,
             localStorage, quota, currentUser>>

\* cache.addAll(requests): every response of the network is stored
addAll(c, requests) ==
    [request \in DOMAIN c \cup requests |->
        IF request \in requests THEN server[request] ELSE c[request]]

\* cache.put(request, response)
put(c, request, response) ==
    [r \in DOMAIN c \cup {request} |-> IF r = request THEN response ELSE c[r]]

\* a cache.match that finds nothing
matchNothing(c, request) == << >>

\* cache.match(request): <<response>>, or << >> for undefined
match(c, request) ==
    IF request \in DOMAIN c THEN <<c[request]>> ELSE << >>

\* The install listener, and the activate listener that skipWaiting brings
\* about: cache.addAll fetches all core assets or fails as a whole; caches
\* of other names, which activation deletes, are not in the model.
ServiceWorker_install ==
    /\ worker = "installing"
    /\ \E ok \in BOOLEAN :
          /\ IF ok
             THEN /\ cache' = addAll(cache, CORE_ASSETS)
                  /\ worker' = "activated"
             ELSE UNCHANGED <<cache, worker>>
          /\ last' = [op |-> "install", ok |-> ok]
    /\ UNCHANGED <<server, fetches>>
    /\ UNCHANGED appVars

\* The fetch listener: a request that is not a GET is left to the browser;
\* for a GET, respondWith is given the promise of caches.open(CACHE_NAME).
\* `later` notes that the network's response to an identical request has
\* been returned to the page before this request was made.
ServiceWorker_onfetch ==
    /\ worker = "activated"
    /\ Len(fetches) < MaxFetches
    /\ \E request \in Requests, method \in {"GET", "POST"} :
          /\ fetches' =
                IF method # "GET" THEN fetches
                ELSE Append(fetches,
                        [request |-> request, at |-> "match",
                         response |-> 0,
                         later |-> \E j \in DOMAIN fetches :
                                      /\ fetches[j].at = "put"
                                      /\ fetches[j].request = request])
          /\ last' = [op |-> "fetch", request |-> request,
                      handled |-> method = "GET"]
    /\ UNCHANGED <<worker, cache, server>>
    /\ UNCHANGED appVars

\* cache.match(event.request).then(response => ...): the cached response is
\* returned, or the request goes to the network
ServiceWorker_match_then ==
    /\ \E i \in DOMAIN fetches :
          LET request == fetches[i].request
              response == match(cache, request)
          IN /\ fetches[i].at = "match"
             /\ IF response # << >>
                THEN /\ fetches' = Without(fetches, i)
                     /\ last' = [op |-> "respond", request |-> request,
                                 response |-> response[1], from |-> "cache",
                                 later |-> fetches[i].later]
                ELSE /\ fetches' = [fetches EXCEPT ![i].at = "fetch"]
                     /\ last' = [op |-> "miss", request |-> request,
                                 later |-> fetches[i].later]
    /\ UNCHANGED <<worker, cache, server>>
    /\ UNCHANGED appVars

\* fetch(event.request).then(networkResponse => ...): cache.put is called
\* with a clone and, without waiting for it, the response is returned; when
\* the network does not answer, the promise given to respondWith rejects
ServiceWorker_fetch_then ==
    /\ \E i \in DOMAIN fetches, ok \in BOOLEAN :
          LET request == fetches[i].request
              networkResponse == server[request]
          IN /\ fetches[i].at = "fetch"
             /\ IF ok
                THEN /\ fetches' = [fetches EXCEPT
                                      ![i].at = "put",
                                      ![i].response = networkResponse]
                     /\ last' = [op |-> "respond", request |-> request,
                                 response |-> networkResponse,
                                 from |-> "network",
                                 later |-> fetches[i].later]
                ELSE /\ fetches' = Without(fetches, i)
                     /\ last' = [op |-> "failed", request |-> request]
    /\ UNCHANGED <<worker, cache, server>>
    /\ UNCHANGED appVars

\* the promise of cache.put settles: the copy is in the cache, or the write
\* was rejected (the quota of the origin is used up)
ServiceWorker_put_then ==
    /\ \E i \in DOMAIN fetches, ok \in BOOLEAN :
          /\ fetches[i].at = "put"
          /\ cache' = IF ok
                      THEN put(cache, fetches[i].request, fetches[i].response)
                      ELSE cache
          /\ fetches' = Without(fetches, i)
          /\ last' = [op |-> "put", request |-> fetches[i].request,
                      response |-> fetches[i].response, ok |-> ok]
    /\ UNCHANGED <<worker, server>>
    /\ UNCHANGED appVars

\* a new version of an asset is deployed
Server_deploy ==
    /\ \E request \in Requests :
          /\ server[request] < MaxVersion
          /\ server' = [server EXCEPT ![request] = @ + 1]
    /\ last' = [op |-> "deploy"]
    /\ UNCHANGED <<worker, cache, fetches>>
    /\ UNCHANGED appVars

----------------------------------------------------------------------------
(* The clock *)

Tick ==
    /\ now < MaxNow
    /\ now' = now + 1
    /\ last' = [op |-> "tick"]
    /\ UNCHANGED <<customers, settings, localStorage, currentView, editingCustomerId,
                   isFormDirty, formData, isEditing, editingNoteId,
                   quickSelected, isRoiModalOpen, roiSelected, reads, download, quota,
                   uuid>>
    /\ UNCHANGED <<currentUser, workerVars>>

----------------------------------------------------------------------------
(* The store operations on their own *)

MaxStoreIds == 2
MaxStoreLen == 2

StoreNote == [id |-> 0, date |-> 0, content |-> RoiNote]

\* the records handed to saveCustomer
StoreCustomers ==
    {Customer(id, [BlankFields EXCEPT !.companyName = name], notes) :
        id \in 1..MaxStoreIds, name \in {Acme, Web},
        notes \in {<< >>, <<StoreNote>>}}

\* The lists the store may hold.  A list with two records of one id is what
\* a restored backup or an edited localStorage entry can leave there.
StoreLists == UNION {[1..n -> StoreCustomers] : n \in 0..MaxStoreLen}

InitStore ==
    /\ customers \in StoreLists
    /\ localStorage = [EmptyStorage EXCEPT
                         ![CustomersKey] = <<Stringify(CustomersKey, customers)>>]
    /\ quota = AmpleQuota
    /\ settings = DefaultSettings
    /\ currentView = "dashboard"
    /\ editingCustomerId = JsNull
    /\ isFormDirty = FALSE
    /\ formData = BlankFields
    /\ isEditing = FALSE
    /\ editingNoteId = JsNull
    /\ quickSelected = << >>
    /\ isRoiModalOpen = FALSE
    /\ roiSelected = << >>
    /\ reads = << >>
    /\ download = << >>
    /\ uuid = 0
    /\ now = 0
    /\ currentUser = <<Kennung>>
    /\ WorkerInit
    /\ last = [op |-> "init"]

storeUnchanged ==
    UNCHANGED <<settings, currentView, editingCustomerId, isFormDirty,
                formData, isEditing, editingNoteId, quickSelected,
                isRoiModalOpen, roiSelected, reads, download, quota, uuid, now>>

\* App.saveCustomer(customer)
App_saveCustomer ==
    /\ Len(customers) <= MaxStoreLen
    /\ \E customer \in StoreCustomers :
          /\ setCustomers(saveCustomer(customers, customer))
          /\ last' = [op |-> "saveCustomer", customer |-> customer,
                      found |-> customer.id \in IdsOf(customers)]
    /\ storeUnchanged
    /\ UNCHANGED <<currentUser, workerVars>>

\* App.deleteCustomer(id)
App_deleteCustomer ==
    /\ \E id \in 1..MaxStoreIds :
          /\ setCustomers(deleteCustomer(customers, id))
          /\ last' = [op |-> "deleteCustomer", id |-> id,
                      found |-> id \in IdsOf(customers)]
    /\ storeUnchanged
    /\ UNCHANGED <<currentUser, workerVars>>

NextStore == App_saveCustomer \/ App_deleteCustomer

SpecStore == InitStore /\ [][NextStore]_vars

----------------------------------------------------------------------------
(* The application *)

Navigation ==
    \/ Header_setView
    \/ Dashboard_navigate
    \/ Dashboard_openDoing
    \/ Doings_openCustomer
    \/ CustomerList_openForm
    \/ CustomerForm_backToList
    \/ Settings_done

DashboardWidgets ==
    \/ QuickNote_handleSelectCustomer
    \/ QuickNote_clearSelection
    \/ QuickNote_handleSaveNote
    \/ Dashboard_openRoiModal
    \/ Dashboard_closeRoiModal
    \/ ROICalculator_handleSelectCustomer
    \/ ROICalculator_clearSelection
    \/ ROICalculator_handleAssignToCustomer

CustomerOps ==
    \/ Doings_handleComplete
    \/ Doings_handleReschedule
    \/ CustomerList_delete
    \/ CustomerForm_handleChange
    \/ CustomerForm_handleReminderChange
    \/ CustomerForm_handleSubmit
    \/ CustomerForm_handleDelete
    \/ CustomerForm_handleCancelEdit
    \/ CustomerForm_setIsEditing
    \/ CustomerForm_handleAddNote
    \/ CustomerForm_handleStartEditNote
    \/ CustomerForm_handleSaveNote

CsvImport ==
    \/ Settings_handleCsvImport
    \/ handleCsvImport_onload

SourceLabels ==
    \/ Settings_handleNameChange
    \/ Settings_handleAddSource
    \/ Settings_handleDeleteSource

Restore ==
    \/ Settings_handleJsonImport_foreign
    \/ Settings_handleJsonImport_exported
    \/ handleJsonImport_onload

Next ==
    \/ Navigation
    \/ DashboardWidgets
    \/ CustomerOps
    \/ CustomerForm_handleChange_doingsTab
    \/ CustomerForm_getCombinedHistory
    \/ CsvImport
    \/ Settings_handleCsvImport_exported
    \/ Settings_handleCsvExport
    \/ SourceLabels
    \/ Settings_handleExport
    \/ Restore
    \/ Settings_handleJsonImport_undated
    \/ App_reload
    \/ Tick

\* every handler of the application
Spec == Init /\ [][Next]_vars

\* The parts of the application.  Each takes the handlers of one concern
\* together with the navigation between the views they are on.

\* the customer list: form, list, doings, dashboard widgets, CSV import
NextCustomers ==
    \/ Navigation
    \/ DashboardWidgets
    \/ Doings_handleComplete
    \/ Doings_handleReschedule
    \/ CustomerList_delete
    \/ CustomerForm_handleChange
    \/ CustomerForm_handleReminderChange
    \/ CustomerForm_handleSubmit
    \/ CustomerForm_handleDelete
    \/ CustomerForm_handleCancelEdit
    \/ CustomerForm_setIsEditing
    \/ CustomerForm_handleAddNote
    \/ CsvImport

SpecCustomers == Init /\ [][NextCustomers]_vars

\* the customer list without the import: form, list, doings, dashboard
\* widgets, and the notes added and edited
NextCustomerNotes ==
    \/ Navigation
    \/ DashboardWidgets
    \/ CustomerOps

SpecCustomerNotes == Init /\ [][NextCustomerNotes]_vars

\* the settings view on its own
NextSettings ==
    \/ Header_setView
    \/ Settings_done
    \/ SourceLabels
    \/ Tick

SpecSettings == Init /\ [][NextSettings]_vars

\* creating customers, editing the labels, and restoring backup files that
\* handleExport did not write
NextRestore ==
    \/ Header_setView
    \/ Settings_done
    \/ Dashboard_navigate
    \/ CustomerForm_handleChange
    \/ CustomerForm_handleSubmit
    \/ Settings_handleAddSource
    \/ Settings_handleDeleteSource
    \/ Settings_handleJsonImport_foreign
    \/ handleJsonImport_onload

SpecRestore == Init /\ [][NextRestore]_vars

\* creating and deleting customers, adding labels, exporting the store and
\* restoring the exported file
NextRoundTrip ==
    \/ Header_setView
    \/ Settings_done
    \/ Dashboard_navigate
    \/ CustomerList_delete
    \/ CustomerForm_handleChange
    \/ CustomerForm_handleSubmit
    \/ CustomerForm_backToList
    \/ Settings_handleAddSource
    \/ Settings_handleExport
    \/ Settings_handleJsonImport_exported
    \/ handleJsonImport_onload

SpecRoundTrip == Init /\ [][NextRoundTrip]_vars

\* The doings list and the dashboard preview over the customer lists a
\* session can start with: active and inactive customers, with a reminder
\* date, with none, and with the '' of a cleared date input.  The lists of
\* up to MaxMixed customers take every kind, the longer ones, which reach
\* the limit of the preview, the kinds with a date.
MaxDoings == 6
MaxMixed == 3

DatedKinds == {<<0, FALSE>>, <<1, FALSE>>, <<1, TRUE>>}

DoingKinds == DatedKinds \cup {<<JsNull, FALSE>>, <<EmptyDate, FALSE>>}

DoingsLists ==
    UNION {{[i \in 1..n |->
               Customer(i, [BlankFields EXCEPT !.companyName = Acme,
                                               !.nextSteps = RoiNote,
                                               !.reminderDate = kinds[i][1],
                                               !.inactive = kinds[i][2]],
                        << >>)]
              : kinds \in [1..n -> IF n <= MaxMixed THEN DoingKinds
                                   ELSE DatedKinds]}
           : n \in 0..MaxDoings}

InitDoings ==
    /\ customers \in DoingsLists
    /\ localStorage = [EmptyStorage EXCEPT
                         ![CustomersKey] = <<Stringify(CustomersKey, customers)>>]
    /\ quota = AmpleQuota
    /\ settings = DefaultSettings
    /\ currentView = "dashboard"
    /\ editingCustomerId = JsNull
    /\ isFormDirty = FALSE
    /\ formData = BlankFields
    /\ isEditing = FALSE
    /\ editingNoteId = JsNull
    /\ quickSelected = << >>
    /\ isRoiModalOpen = FALSE
    /\ roiSelected = << >>
    /\ reads = << >>
    /\ download = << >>
    /\ uuid = 0
    /\ now = 0
    /\ currentUser = <<Kennung>>
    /\ WorkerInit
    /\ last = [op |-> "init"]

NextDoings ==
    \/ Header_setView
    \/ Dashboard_navigate
    \/ Dashboard_openDoing
    \/ Doings_openCustomer

SpecDoings == InitDoings /\ [][NextDoings]_vars

\* The doings list and the dashboard preview from the first run on, with
\* customers created in the form and customers restored from a backup file
\* that holds a reminder date that is not a date.
NextDoingsRestored ==
    \/ Header_setView
    \/ Settings_done
    \/ Dashboard_navigate
    \/ Dashboard_openDoing
    \/ Doings_openCustomer
    \/ Doings_handleReschedule
    \/ CustomerForm_handleChange
    \/ CustomerForm_handleReminderChange
    \/ CustomerForm_handleSubmit
    \/ Settings_handleJsonImport_undated
    \/ handleJsonImport_onload

SpecDoingsRestored == Init /\ [][NextDoingsRestored]_vars

\* The two stores and window.localStorage: every kind of change to the
\* customer list and to the settings, under a quota that has room for all
\* of them and under one that has room for the settings only, and the
\* reload of the page.
InitPersist ==
    /\ customers = << >>
    /\ settings = DefaultSettings
    /\ currentView = "dashboard"
    /\ editingCustomerId = JsNull
    /\ isFormDirty = FALSE
    /\ formData = BlankFields
    /\ isEditing = FALSE
    /\ editingNoteId = JsNull
    /\ quickSelected = << >>
    /\ isRoiModalOpen = FALSE
    /\ roiSelected = << >>
    /\ reads = << >>
    /\ download = << >>
    /\ uuid = 0
    /\ now = 0
    /\ localStorage = EmptyStorage
    /\ quota \in {SmallQuota, AmpleQuota}
    /\ currentUser = <<Kennung>>
    /\ WorkerInit
    /\ last = [op |-> "init"]

NextPersist ==
    \/ Header_setView
    \/ Settings_done
    \/ Dashboard_navigate
    \/ CustomerList_delete
    \/ CustomerForm_handleChange
    \/ CustomerForm_handleSubmit
    \/ Settings_handleAddSource
    \/ CsvImport
    \/ Settings_handleJsonImport_foreign
    \/ handleJsonImport_onload
    \/ App_reload

SpecPersist == InitPersist /\ [][NextPersist]_vars

\* one customer's form: the doings tab and the history tab, over two days
NextHistory ==
    \/ Dashboard_navigate
    \/ CustomerForm_handleChange
    \/ CustomerForm_handleChange_doingsTab
    \/ CustomerForm_handleReminderChange
    \/ CustomerForm_handleSubmit
    \/ CustomerForm_handleAddNote
    \/ CustomerForm_handleStartEditNote
    \/ CustomerForm_handleSaveNote
    \/ CustomerForm_getCombinedHistory
    \/ Tick

SpecHistory == Init /\ [][NextHistory]_vars

\* Notes added in the form and on the dashboard and notes given another
\* date, over two days; the lastContact field of the form is not touched.
NextLastContact ==
    \/ Header_setView
    \/ Dashboard_navigate
    \/ CustomerList_openForm
    \/ QuickNote_handleSelectCustomer
    \/ QuickNote_handleSaveNote
    \/ CustomerForm_handleChange
    \/ CustomerForm_handleSubmit
    \/ CustomerForm_handleAddNote
    \/ CustomerForm_handleStartEditNote
    \/ CustomerForm_handleSaveNote
    \/ Tick

SpecLastContact == Init /\ [][NextLastContact]_vars

\* the four handlers that write a note, over two days: the history tab, the
\* quick note and the ROI calculator of the dashboard, and the doings list
NextNotes ==
    \/ Header_setView
    \/ Dashboard_navigate
    \/ Doings_openCustomer
    \/ QuickNote_handleSelectCustomer
    \/ QuickNote_handleSaveNote
    \/ Dashboard_openRoiModal
    \/ Dashboard_closeRoiModal
    \/ ROICalculator_handleSelectCustomer
    \/ ROICalculator_handleAssignToCustomer
    \/ Doings_handleComplete
    \/ CustomerForm_handleChange
    \/ CustomerForm_handleReminderChange
    \/ CustomerForm_handleSubmit
    \/ CustomerForm_handleAddNote
    \/ Tick

SpecNotes == Init /\ [][NextNotes]_vars

\* The .csv export and the import.  A session starts over the list an
\* earlier session left: no customer, or one, whose next steps are empty,
\* one line or two lines.
CsvCustomers ==
    {Customer(1, [BlankFields EXCEPT !.companyName = Acme, !.source = Google,
                                     !.nextSteps = steps], << >>) :
        steps \in {<< >>, <<"o", "k">>, <<"o", "\n", "k">>}}

CsvLists == {<< >>} \cup {<<c>> : c \in CsvCustomers}

InitCsv ==
    /\ customers \in CsvLists
    /\ localStorage =
          IF customers = << >> THEN EmptyStorage
          ELSE [EmptyStorage EXCEPT
                  ![CustomersKey] = <<Stringify(CustomersKey, customers)>>]
    /\ quota = AmpleQuota
    /\ settings = DefaultSettings
    /\ currentView = "dashboard"
    /\ editingCustomerId = JsNull
    /\ isFormDirty = FALSE
    /\ formData = BlankFields
    /\ isEditing = FALSE
    /\ editingNoteId = JsNull
    /\ quickSelected = << >>
    /\ isRoiModalOpen = FALSE
    /\ roiSelected = << >>
    /\ reads = << >>
    /\ download = << >>
    /\ uuid = Len(customers)
    /\ now = 0
    /\ currentUser = <<Kennung>>
    /\ WorkerInit
    /\ last = [op |-> "init"]

NextCsv ==
    \/ Header_setView
    \/ Dashboard_navigate
    \/ CustomerList_delete
    \/ Settings_handleCsvExport
    \/ Settings_handleCsvImport
    \/ Settings_handleCsvImport_exported
    \/ handleCsvImport_onload

SpecCsv == InitCsv /\ [][NextCsv]_vars

\* The import of files with contact dates, on either day.
NextImportDates ==
    \/ Header_setView
    \/ Dashboard_navigate
    \/ CustomerList_delete
    \/ Settings_handleCsvImport_dated
    \/ handleCsvImport_onload
    \/ Tick

SpecImportDates == InitCsv /\ [][NextImportDates]_vars

\* Tasks set in the form, and completed and rescheduled on the doings view,
\* over two days.
NextTasks ==
    \/ Header_setView
    \/ Dashboard_navigate
    \/ Doings_openCustomer
    \/ Doings_handleComplete
    \/ Doings_handleReschedule
    \/ CustomerForm_handleChange
    \/ CustomerForm_handleChange_doingsTab
    \/ CustomerForm_handleReminderChange
    \/ CustomerForm_handleSubmit
    \/ Tick

SpecTasks == Init /\ [][NextTasks]_vars

\* The page opened without a current user, or with the empty identifier in
\* the item crm_current_user
InitLogin ==
    /\ customers \in CsvLists
    /\ localStorage =
          IF customers = << >> THEN EmptyStorage
          ELSE [EmptyStorage EXCEPT
                  ![CustomersKey] = <<Stringify(CustomersKey, customers)>>]
    /\ quota = AmpleQuota
    /\ settings = DefaultSettings
    /\ currentView = "dashboard"
    /\ editingCustomerId = JsNull
    /\ isFormDirty = FALSE
    /\ formData = BlankFields
    /\ isEditing = FALSE
    /\ editingNoteId = JsNull
    /\ quickSelected = << >>
    /\ isRoiModalOpen = FALSE
    /\ roiSelected = << >>
    /\ reads = << >>
    /\ download = << >>
    /\ uuid = Len(customers)
    /\ now = 0
    /\ currentUser \in {<< >>, << << >> >>}
    /\ WorkerInit
    /\ last = [op |-> "init"]

\* Logging in, switching the user, and the work in the settings between
\* the two: labels added and deleted, files imported.
NextLogin ==
    \/ LoginScreen_handleSubmit
    \/ Settings_switchUser
    \/ Header_setView
    \/ Settings_handleAddSource
    \/ Settings_handleDeleteSource
    \/ Settings_handleCsvImport
    \/ handleCsvImport_onload

SpecLogin == InitLogin /\ [][NextLogin]_vars

\* The source labels and the customers that carry them: labels added and
\* deleted in the settings, customers opened, edited and saved in the form.
NextLabels ==
    \/ Header_setView
    \/ Dashboard_navigate
    \/ CustomerList_openForm
    \/ CustomerForm_setIsEditing
    \/ CustomerForm_handleChange
    \/ CustomerForm_handleSubmit
    \/ Settings_handleAddSource
    \/ Settings_handleDeleteSource

SpecLabels == InitCsv /\ [][NextLabels]_vars

\* The service worker and the network.
NextWorker ==
    \/ ServiceWorker_install
    \/ ServiceWorker_onfetch
    \/ ServiceWorker_match_then
    \/ ServiceWorker_fetch_then
    \/ ServiceWorker_put_then
    \/ Server_deploy

SpecWorker == Init /\ [][NextWorker]_vars

\* The customer form: opening it from the dashboard and the list, editing,
\* saving, cancelling, adding notes, deleting, and leaving it.
NextForm ==
    \/ Header_setView
    \/ Dashboard_navigate
    \/ CustomerList_openForm
    \/ CustomerForm_backToList
    \/ CustomerForm_setIsEditing
    \/ CustomerForm_handleChange
    \/ CustomerForm_handleSubmit
    \/ CustomerForm_handleCancelEdit
    \/ CustomerForm_handleDelete
    \/ CustomerForm_handleAddNote

SpecForm == Init /\ [][NextForm]_vars

\* Two imports under way at the same time, their callbacks in either order,
\* with deletes and quick notes in between.
NextConcurrentImports ==
    \/ Header_setView
    \/ Dashboard_navigate
    \/ CustomerList_delete
    \/ QuickNote_handleSelectCustomer
    \/ QuickNote_handleSaveNote
    \/ Settings_handleCsvImport_concurrent
    \/ handleCsvImport_onload

SpecConcurrentImports == InitCsv /\ [][NextConcurrentImports]_vars


----------------------------------------------------------------------------
(* Properties *)

IdSeq(list) == [i \in DOMAIN list |-> list[i].id]

UniqueIds(list) ==
    \A i, j \in DOMAIN list : list[i].id = list[j].id => i = j

NoteIds(customer) == IdsOf(NotesOf(customer))

\* C1: in every reachable state every stored customer has a non-empty
\* companyName.
CompanyNameNonEmpty ==
    \A i \in DOMAIN customers : customers[i].companyName # << >>

\* C2: notes are append-only: in every step, a customer that is in the list
\* before and after the step still holds every note it held before.
NotesAppendOnly ==
    [][\A i \in DOMAIN customers : \A j \in DOMAIN customers' :
          customers[i].id = customers'[j].id
             => NoteIds(customers[i]) \subseteq NoteIds(customers'[j])]_vars

\* C3: customer ids are unique and immutable: after every step no two
\* customers share an id, the customers that stay keep their ids in the same
\* order, only a delete takes an id out of the list, and every id that enters
\* the list was handed out in this step.
CustomerIdsUniqueAndImmutable ==
    [][/\ UniqueIds(customers')
       /\ SelectSeq(IdSeq(customers), LAMBDA id : id \in IdsOf(customers'))
            = SelectSeq(IdSeq(customers'), LAMBDA id : id \in IdsOf(customers))
       /\ last'.op # "delete" => IdsOf(customers) \subseteq IdsOf(customers')
       /\ \A id \in IdsOf(customers') \ IdsOf(customers) :
             id > uuid /\ id <= uuid']_vars

\* a CSV import of one row has put a second customer into the list
ImportedSecondCustomer ==
    /\ last.op = "import"
    /\ last.count = 1
    /\ Len(customers) = 2

\* C4: saveCustomer(c) replaces the record with the id of c by c, at the same
\* position and with no field of the old record kept, and leaves the other
\* records alone; if there is no such record it appends c.
SaveCustomerReplacesOrAppends ==
    [][last'.op = "saveCustomer" =>
          LET c == last'.customer
          IN IF \E i \in DOMAIN customers : customers[i].id = c.id
             THEN /\ Len(customers') = Len(customers)
                  /\ \A i \in DOMAIN customers :
                        customers'[i] = IF customers[i].id = c.id THEN c
                                        ELSE customers[i]
             ELSE customers' = Append(customers, c)]_vars

\* a record in second position was replaced, with different notes
ReplacedInPlace ==
    /\ last.op = "saveCustomer"
    /\ last.found
    /\ Len(customers) = 2
    /\ customers[2] = last.customer
    /\ customers[2].notes # << >>
    /\ customers[1].id # last.customer.id

\* C5: after deleteCustomer(id) no record has that id, and the other records
\* are all there in their original relative order.
DeleteCustomerRemoves ==
    [][last'.op = "deleteCustomer" =>
          LET id == last'.id
              others == {k \in DOMAIN customers : customers[k].id # id}
          IN /\ \A i \in DOMAIN customers' : customers'[i].id # id
             /\ Len(customers') = Cardinality(others)
             /\ \A k \in others :
                   customers'[Cardinality({j \in others : j <= k})]
                      = customers[k]]_vars

\* a record was deleted and another one stayed
DeletedAndKept ==
    /\ last.op = "deleteCustomer"
    /\ last.found
    /\ customers # << >>

\* C6: deleteCustomer(id) for an id that is not in the list leaves the list
\* unchanged.
DeleteAbsentIsNoOp ==
    [][last'.op = "deleteCustomer" /\ last'.id \notin IdsOf(customers)
          => customers' = customers]_vars

\* an id that is not in a non-empty list was deleted
DeletedAbsentId ==
    /\ last.op = "deleteCustomer"
    /\ ~last.found
    /\ customers # << >>

\* C7: the source-label list is never empty.
SourceLabelsNeverEmpty == Len(customerSources(settings)) >= 1

NoEmptyNoDuplicate(labels) ==
    /\ \A i \in DOMAIN labels : labels[i] # << >>
    /\ \A i, j \in DOMAIN labels : labels[i] = labels[j] => i = j

\* C8: adding a label appends its trimmed text if that is non-empty and not
\* in the list, and otherwise changes nothing; after every step the list
\* holds no empty and no duplicate label.
SourceLabelsAddedOnce ==
    [][/\ NoEmptyNoDuplicate(customerSources(settings'))
       /\ last'.op = "addSource" =>
             LET labels == customerSources(settings)
                 text == Trim(last'.text)
             IN customerSources(settings')
                   = IF text # << >> /\ \A i \in DOMAIN labels : labels[i] # text
                     THEN Append(labels, text)
                     ELSE labels]_vars

\* a label that is already in the list was not added again
DuplicateLabelRefused ==
    /\ last.op = "addSource"
    /\ ~last.added
    /\ Trim(last.text) # << >>
    /\ Len(customerSources(settings)) = 5

\* C9: restoring, with confirmation, a file that handleExport wrote is
\* accepted and yields the customers and settings of the time of the export.
BackupRoundTrip ==
    (last.op = "restore" /\ last.origin # << >> /\ last.confirm)
       => /\ ~last.alert
          /\ customers = last.origin[1]
          /\ settings = last.origin[2]

\* an exported file with a customer was restored over a different store
RestoredExport ==
    /\ last.op = "restore"
    /\ last.origin # << >>
    /\ last.confirm
    /\ last.changed
    /\ customers # << >>

\* the members of the JSON object text with the key `key`
TextMembers(text, key) ==
    IF text.j = "obj"
    THEN {text.v[i].v : i \in {k \in DOMAIN text.v : text.v[k].k = key}}
    ELSE {}

\* the file lacks customers, has a non-array customers, lacks settings, or is
\* not valid JSON
MalformedBackup(text) ==
    \/ text.j = "bad"
    \/ TextMembers(text, "customers") = {}
    \/ \E c \in TextMembers(text, "customers") : c.j # "arr"
    \/ TextMembers(text, "settings") = {}

\* C10: a restore of a malformed backup file reports an error and changes
\* neither the customers nor the settings; a file is accepted only if it has
\* both keys, customers being an array.
RestoreRejectsMalformed ==
    [][last'.op = "restore" =>
          /\ MalformedBackup(last'.text) =>
                last'.alert /\ customers' = customers /\ settings' = settings
          /\ ~last'.alert => ~MalformedBackup(last'.text)]_vars

\* a file with a non-array customers was rejected while the store held a
\* customer
RejectedNonArray ==
    /\ last.op = "restore"
    /\ last.alert
    /\ \E c \in TextMembers(last.text, "customers") : c.j = "str"
    /\ customers # << >>

\* the items window.localStorage holds are the texts of the two stores
ItemsOf(cs, st) ==
    [k \in {CustomersKey, SettingsKey} |->
        <<Stringify(k, IF k = CustomersKey THEN cs ELSE st)>>]

\* what a reload of the page finds in window.localStorage
Persisted(items) ==
    <<storedValue(items, CustomersKey, << >>),
      storedValue(items, SettingsKey, DefaultSettings)>>

\* C11: a restore replaces the customers and the settings together or
\* leaves both as they were, in memory and in window.localStorage; this
\* includes a declined confirmation and a storage write that fails.
RestoreIsAtomic ==
    [][last'.op = "restore" =>
          \/ /\ <<customers', settings'>> = <<customers, settings>>
             /\ Persisted(localStorage') = Persisted(localStorage)
          \/ LET data == JSONparse(last'.text).value
                 backup == <<Stored(Member(data, "customers")),
                             Stored(Member(data, "settings"))>>
             IN /\ <<customers', settings'>> \in {<<customers, settings>>, backup}
                /\ Persisted(localStorage')
                      \in {Persisted(localStorage), backup}]_vars

\* C12: what window.localStorage holds under the two keys is what the
\* stores hold in memory, after every handler, and a reload of the page
\* yields the same customers and settings.
WriteThrough ==
    [][/\ storedValue(localStorage', CustomersKey, << >>) = customers'
       /\ storedValue(localStorage', SettingsKey, DefaultSettings) = settings'
       /\ customers' # customers =>
             localStorage'[CustomersKey] = <<Stringify(CustomersKey, customers')>>
       /\ settings' # settings =>
             localStorage'[SettingsKey] = <<Stringify(SettingsKey, settings')>>
       /\ last'.op = "reload" => customers' = customers /\ settings' = settings
      ]_vars

\* the page was loaded again over a storage holding a customer list and
\* settings that the handlers wrote
ReloadedWrittenStores ==
    /\ last.op = "reload"
    /\ customers # << >>
    /\ settings # DefaultSettings
    /\ localStorage = ItemsOf(customers, settings)

\* the customer is active and has a reminder date
ActiveWithReminder(c) ==
    c.reminderDate # JsNull /\ c.reminderDate # EmptyDate /\ c.inactive = FALSE

DoingsSortedAndPreviewIsPrefix ==
    LET tasks == openTasks(customers)
        n == Len(tasks)
    IN /\ \A i, j \in DOMAIN tasks :
             /\ i < j
             /\ InvalidDate \notin {tasks[i].reminderDate, tasks[j].reminderDate}
             => tasks[i].reminderDate <= tasks[j].reminderDate
       /\ upcomingDoings(customers)
            = SubSeq(tasks, 1, IF n < 5 THEN n ELSE 5)

\* C15: the combined history of a customer has one entry more than the
\* customer has notes exactly when nextSteps is non-empty and reminderDate
\* is not null, and as many entries as notes otherwise; the extra entry has
\* isFuture = true and the reminder date as its date.
CombinedHistoryHasTaskEntry ==
    last.op = "history" =>
        LET c == customers[Find(customers, last.id)]
            task == c.nextSteps # << >> /\ c.reminderDate # JsNull
        IN /\ Len(last.items)
                = Len(NotesOf(c)) + (IF task THEN 1 ELSE 0)
           /\ task => \E i \in DOMAIN last.items :
                         /\ IsFutureNote(last.items[i])
                         /\ last.items[i].date = c.reminderDate

\* the note is the entry of the open task: it has the id 'reminder' or
\* isFuture = true
IsSyntheticEntry(note) == note.id = ReminderId \/ IsFutureNote(note)

\* C16: the entry of the open task is never persisted: no note of a
\* customer in the store, in memory or in localStorage, has the id
\* 'reminder' or isFuture = true, and building the combined history leaves
\* the notes of the customer as they were.
SyntheticEntryNeverStored ==
    /\ \A cs \in {customers, storedValue(localStorage, CustomersKey, << >>)} :
          \A i \in DOMAIN cs : \A k \in DOMAIN NotesOf(cs[i]) :
             ~IsSyntheticEntry(NotesOf(cs[i])[k])
    /\ last.op = "history" =>
          NotesOf(customers[Find(customers, last.id)]) = last.notes

\* the history tab has been rendered for a customer with a note and an
\* open task: the combined history has the entry of the task before or
\* behind the note
HistoryOfNoteAndTask ==
    /\ last.op = "history"
    /\ last.notes # << >>
    /\ Len(last.items) = Len(last.notes) + 1
    /\ \E i \in DOMAIN last.items : IsSyntheticEntry(last.items[i])

\* C17: after the edit of a note's timestamp is saved, lastContact of the
\* customer is the date of the latest instant among the customer's notes
\* that are not future ones, whatever lastContact was and whichever note
\* was edited.
NoteEditSetsLastContact ==
    last.op = "saveNote" =>
        LET c == customers[Find(customers, last.id)]
            past == {k \in DOMAIN c.notes : ~IsFutureNote(c.notes[k])}
        IN \E k \in past :
              /\ \A j \in past : c.notes[j].date <= c.notes[k].date
              /\ c.lastContact = DateOf(c.notes[k].date)

\* a note was moved to the first day while another note of the customer is
\* a day later, and lastContact was the first day before
EditedAnEarlierNote ==
    /\ last.op = "saveNote"
    /\ LET c == customers[Find(customers, last.id)]
       IN /\ \E k, j \in DOMAIN c.notes :
                /\ c.notes[k].id = last.note
                /\ DateOf(c.notes[k].date) < DateOf(c.notes[j].date)
          /\ last.was # c.lastContact

\* C18: every step that adds a note to a customer sets lastContact of that
\* customer to the current date in the same update of the store: a customer
\* that holds a note written in the step has the note as its last one,
\* dated now, and has today's date as lastContact.
NoteAddedSetsLastContact ==
    [][\A j \in DOMAIN customers' :
          LET c == customers'[j]
              written == {k \in DOMAIN NotesOf(c) :
                            NotesOf(c)[k].id > uuid /\ NotesOf(c)[k].id <= uuid'}
          IN /\ last'.op = "addNote" /\ c.id = last'.id => written # {}
             /\ written # {} =>
                   /\ written = {Len(NotesOf(c))}
                   /\ NotesOf(c)[Len(NotesOf(c))].date = now'
                   /\ c.lastContact = DateOf(now')]_vars

\* on the second day a task was completed in the doings list for a customer
\* that has a note of the first day
CompletedDoingOnSecondDay ==
    /\ last.op = "addNote" /\ last.by = "Doings"
    /\ Today = 1
    /\ LET c == customers[Find(customers, last.id)]
       IN /\ Len(c.notes) = 2
          /\ DateOf(c.notes[1].date) = 0
          /\ c.notes[2].id = last.note
          /\ c.lastContact = 1

\* C19: an import adds one customer for each data row of the file whose
\* company name is not empty, and none for the other rows: the list grows
\* by the number of such rows, the store is not written when there is no
\* such row, and every added customer has an id handed out in this step
\* that no other customer has, no notes and no additional contacts.
ImportAddsOnePerNamedRow ==
    [][last'.op = "import" =>
          LET named == {i \in DOMAIN last'.names : last'.names[i] # << >>}
              n == Cardinality(named)
              added == (Len(customers) + 1)..Len(customers')
          IN /\ last'.count = n
             /\ Len(customers') = Len(customers) + n
             /\ n = 0 => UNCHANGED <<customers, localStorage>>
             /\ \A j \in added :
                   /\ customers'[j].id > uuid /\ customers'[j].id <= uuid'
                   /\ \A k \in DOMAIN customers' :
                         customers'[k].id = customers'[j].id => k = j
                   /\ customers'[j].notes = << >>
                   /\ customers'[j].additionalContacts = << >>]_vars

\* C20: an import only appends: the customers of the list before the
\* import are its first customers afterwards, each unchanged, and behind them
\* stand as many customers as the import made, whatever their company
\* names and e-mail addresses are.
ImportOnlyAppends ==
    [][last'.op = "import" =>
          /\ Len(customers') = Len(customers) + last'.count
          /\ \A i \in DOMAIN customers : customers'[i] = customers[i]]_vars

\* the file exported from the list was imported into it: the list holds two
\* customers with the same company name
ImportedSameCompanyName ==
    /\ last.op = "import"
    /\ last.count = 1
    /\ Len(customers) = 2
    /\ customers[1].companyName = customers[2].companyName
    /\ customers[1].email = customers[2].email
    /\ customers[1].id # customers[2].id

\* C21: a date that is missing or is no date never aborts an import: every
\* row of the file is imported, in the order of the file, behind the
\* customers the list held; a contact date the row gives is kept, and a
\* contact date that is missing or no date is the date of the import.
ImportToleratesMalformedDates ==
    [][last'.op = "import" /\ last'.dates # << >> =>
          LET OrToday(date) == IF date \in Nat THEN date ELSE Today
          IN /\ last'.count = Len(last'.dates)
             /\ Len(customers') = Len(customers) + Len(last'.dates)
             /\ \A i \in DOMAIN customers : customers'[i] = customers[i]
             /\ \A j \in DOMAIN last'.dates :
                   LET c == customers'[Len(customers) + j]
                   IN /\ c.companyName = last'.names[j]
                      /\ c.firstContact = OrToday(last'.dates[j].first)
                      /\ c.lastContact = OrToday(last'.dates[j].last)]_vars

\* on the second day a file was imported that has a row whose firstContact
\* is no date and a row without lastContact: both rows are customers
ImportedMalformedDatesOnSecondDay ==
    /\ last.op = "import"
    /\ Today = 1
    /\ Len(last.dates) = 2
    /\ last.dates[1].first = InvalidDate
    /\ last.dates[2].last = JsNull
    /\ Len(customers) = 2
    /\ customers[1].firstContact = 1
    /\ customers[2].firstContact = 0
    /\ customers[2].lastContact = 1

\* C22: imports do not race.  Whichever read completes, and whatever was
\* saved, deleted or imported while it was under way, its callback keeps
\* every customer the list holds at that time, unchanged and in place, and
\* puts one customer for each named row of its file behind them; a customer
\* that was in the list when the file was picked and has been deleted since
\* does not come back, and the other reads stay under way.
ImportsDoNotRace ==
    [][last'.op = "import" =>
          \E i \in DOMAIN reads :
             LET named == SelectSeq(reads[i].file.names,
                                    LAMBDA name : name # << >>)
                 closure == IF "customers" \in DOMAIN reads[i]
                            THEN reads[i].customers ELSE << >>
             IN /\ reads' = Without(reads, i)
                /\ Len(customers') = Len(customers) + Len(named)
                /\ \A k \in DOMAIN customers : customers'[k] = customers[k]
                /\ \A j \in DOMAIN named :
                      customers'[Len(customers) + j].companyName = named[j]
                /\ \A k \in DOMAIN closure :
                      closure[k].id \notin IdsOf(customers)
                         => closure[k].id \notin IdsOf(customers')]_vars

\* two files were picked while the list was empty, and both reads have
\* completed: the list holds the customer of the sheet and the customer of
\* the .csv file
BothBatchesImported ==
    /\ last.op = "import"
    /\ last.pending = 0
    /\ last.closure = <<<< >>>>
    /\ uuid = 2
    /\ Len(customers) = 2
    /\ customers[1].id = 1 /\ customers[1].companyName = Web
    /\ customers[2].id = 2 /\ customers[2].contactPerson = Web

\* C23: submitting the form with an empty company name is refused: the
\* customer list and what is stored stay as they are, no id is handed out,
\* and the form stays open in edit mode with the same data, the same
\* customer and the same dirty flag.
EmptyCompanyNameRefused ==
    [][last'.op = "submit" /\ formData.companyName = << >> =>
          /\ last'.alert
          /\ UNCHANGED <<customers, localStorage, uuid>>
          /\ currentView' = "customerForm"
          /\ showSaveActions'
          /\ UNCHANGED <<formData, editingCustomerId, isEditing,
                         isFormDirty>>]_vars

\* the company name of a stored customer was cleared in the form and the
\* form was submitted: the customer has its name, the form is dirty
RefusedEmptyNameOfStoredCustomer ==
    /\ last.op = "submit"
    /\ last.alert
    /\ currentView = "customerForm"
    /\ isEditing
    /\ isFormDirty
    /\ formData.companyName = << >>
    /\ editingCustomerId \in IdsOf(customers)
    /\ customers[Find(customers, editingCustomerId)].companyName = Acme

\* C24 as stated: once the network's response to a GET request has been
\* returned to the page, every later identical GET request is answered
\* from the cache.
LaterRequestsServedFromCache ==
    [][last'.op \in {"miss", "respond"} /\ last'.later =>
          last'.op = "respond" /\ last'.from = "cache"]_vars

\* C24: the cache is served first and filled from the network.  A request
\* that is in the cache is answered with the cached response, the network
\* is not asked and the cache is not written; a request goes to the
\* network only when it is not in the cache; the response of the network
\* is returned as the network gave it while its copy is still being
\* written; and when that write has succeeded the cache holds the copy, so
\* that identical requests looked up from then on are answered from the
\* cache.
CacheFirstWriteThrough ==
    [][/\ last'.op = "respond" /\ last'.from = "cache" =>
             /\ last'.request \in DOMAIN cache
             /\ last'.response = cache[last'.request]
             /\ Len(fetches') = Len(fetches) - 1
             /\ UNCHANGED <<cache, server>>
       /\ last'.op = "miss" => last'.request \notin DOMAIN cache
       /\ last'.op = "respond" /\ last'.from = "network" =>
             /\ last'.response = server[last'.request]
             /\ \E i \in DOMAIN fetches' :
                   /\ fetches'[i].at = "put"
                   /\ fetches'[i].request = last'.request
                   /\ fetches'[i].response = last'.response
             /\ UNCHANGED cache
       /\ last'.op = "put" /\ last'.ok =>
             /\ last'.request \in DOMAIN cache'
             /\ cache'[last'.request] = last'.response
             /\ \A r \in DOMAIN cache \ {last'.request} :
                   r \in DOMAIN cache' /\ cache'[r] = cache[r]]_vars

\* an asset that was not pre-cached is answered from the cache with the
\* copy of its first version although the network serves the second
AnsweredWithWrittenCopy ==
    /\ last.op = "respond"
    /\ last.from = "cache"
    /\ last.request = "logo.png"
    /\ last.response = 0
    /\ server["logo.png"] = 1

\* the date of the latest note that is not a future one
LatestNoteDate(c) ==
    LET past == SelectSeq(NotesOf(c), LAMBDA n : ~IsFutureNote(n))
    IN DateOf(CHOOSE d \in {past[i].date : i \in DOMAIN past} :
                 \A i \in DOMAIN past : past[i].date <= d)

\* C25 as stated: the lastContact of a customer with notes is the date of
\* its latest note that is not a future one.
LastContactIsLatestNoteDate ==
    \A i \in DOMAIN customers :
       NotesOf(customers[i]) # << >> =>
          customers[i].lastContact = LatestNoteDate(customers[i])

\* C25: the lastContact of a customer with notes is the date of the note
\* added last or the date of its latest note: adding a note sets it to the
\* day of the add, which is the date of the added note, and giving a note
\* another date sets it to the date of the latest note.
LastContactIsAddedOrLatestNoteDate ==
    \A i \in DOMAIN customers :
       LET notes == NotesOf(customers[i])
       IN notes # << >> =>
             customers[i].lastContact
                \in {DateOf(notes[Len(notes)].date),
                     LatestNoteDate(customers[i])}

\* a note was given a date of the second day, and a note added on the first
\* day afterwards: lastContact is the first day, the latest note is of the
\* second
AddedNoteBeforeLatest ==
    /\ last.op = "addNote"
    /\ Today = 0
    /\ \E i \in DOMAIN customers :
          /\ customers[i].id = last.id
          /\ Len(customers[i].notes) = 2
          /\ DateOf(customers[i].notes[1].date) = 1
          /\ customers[i].lastContact = 0

\* customers c and d agree on every field but those of `keys`
SameBut(c, d, keys) ==
    /\ DOMAIN c = DOMAIN d
    /\ \A k \in DOMAIN c \ keys : c[k] = d[k]

\* C26: completing a doing of customer c sets its reminderDate to null,
\* appends one note of this instant to its notes and sets its lastContact
\* to today; its next steps and other fields and the other customers stay
\* as they are, and c is no longer in the doings list.  Rescheduling a
\* doing of c changes the reminderDate of c and nothing else, and c stays
\* in the doings list.  A customer without a reminderDate is never in the
\* doings list.
DoingCompletedOrRescheduled ==
    [][/\ \A i \in DOMAIN customers' :
             customers'[i].reminderDate = JsNull =>
                customers'[i].id \notin IdsOf(openTasks(customers'))
       /\ last'.op \in {"addNote", "reschedule"}
          /\ (last'.op = "addNote" => last'.by = "Doings") =>
             /\ last'.id \in IdsOf(openTasks(customers))
             /\ Len(customers') = Len(customers)
             /\ \A i \in DOMAIN customers :
                   IF customers[i].id # last'.id
                   THEN customers'[i] = customers[i]
                   ELSE LET c == customers[i]
                            d == customers'[i]
                        IN IF last'.op = "addNote"
                           THEN /\ SameBut(c, d, {"reminderDate", "notes",
                                                  "lastContact"})
                                /\ d.reminderDate = JsNull
                                /\ d.lastContact = Today
                                /\ Len(d.notes) = Len(NotesOf(c)) + 1
                                /\ SubSeq(d.notes, 1, Len(NotesOf(c)))
                                      = NotesOf(c)
                                /\ d.notes[Len(d.notes)].id = last'.note
                                /\ d.notes[Len(d.notes)].date = now
                                /\ d.id \notin IdsOf(openTasks(customers'))
                           ELSE /\ SameBut(c, d, {"reminderDate"})
                                /\ d.reminderDate > Today
                                /\ d.id \in IdsOf(openTasks(customers'))]_vars

\* on the second day the doing of the first of two customers was completed:
\* the customer has its next steps, a note and no reminder, and the doings
\* list holds the other customer
CompletedOneOfTwoDoings ==
    /\ last.op = "addNote"
    /\ last.by = "Doings"
    /\ Today = 1
    /\ Len(customers) = 2
    /\ customers[1].id = last.id
    /\ customers[1].nextSteps # << >>
    /\ customers[1].reminderDate = JsNull
    /\ customers[1].lastContact = 1
    /\ Len(customers[1].notes) = 1
    /\ IdsOf(openTasks(customers)) = {customers[2].id}

\* C27: saving the form for a stored customer writes a record with the
\* notes the store holds for that customer at that time and with the fields
\* of the form; the list keeps its length and its other customers.
FormSaveKeepsNotes ==
    [][last'.op = "submit" /\ ~last'.alert /\ ~last'.fresh =>
          /\ last'.id = editingCustomerId
          /\ last'.id \in IdsOf(customers)
          /\ Len(customers') = Len(customers)
          /\ \A i \in DOMAIN customers :
                IF customers[i].id # last'.id
                THEN customers'[i] = customers[i]
                ELSE /\ customers'[i].notes = NotesOf(customers[i])
                     /\ customers'[i].id = customers[i].id
                     /\ \A k \in FormKeys :
                           customers'[i][k] = formData[k]]_vars

\* a customer with a note was saved from the form with next steps and a
\* reminder date: the stored customer has the note
SavedTaskOfCustomerWithNote ==
    /\ last.op = "submit"
    /\ ~last.alert
    /\ ~last.fresh
    /\ \E i \in DOMAIN customers :
          /\ customers[i].id = last.id
          /\ Len(customers[i].notes) = 1
          /\ customers[i].nextSteps # << >>
          /\ customers[i].reminderDate = 1

\* C28: when setView asks its question, which it does for a navigation
\* that is not forced while the form is shown and dirty, and the user
\* declines, the view, the dirty flag and the form stay as they are; a
\* navigation from the dirty form that was not declined shows the view asked
\* for; and whenever the view changes the dirty flag is cleared.
UnsavedChangesGuard ==
    [][/\ last'.op = "setView" /\ last'.declined =>
             /\ currentView = "customerForm" /\ isFormDirty
             /\ UNCHANGED <<currentView, isFormDirty, formData, isEditing,
                            editingCustomerId, editingNoteId>>
       /\ last'.op = "setView" /\ ~last'.declined
          /\ currentView = "customerForm" /\ isFormDirty =>
             ~isFormDirty'
       /\ currentView' # currentView => ~isFormDirty']_vars

\* the form of a new customer holds a company name that is not saved, the
\* user asked for another view and declined the question
DeclinedToLeaveDirtyForm ==
    /\ last.op = "setView"
    /\ last.declined
    /\ currentView = "customerForm"
    /\ isFormDirty
    /\ editingCustomerId = JsNull
    /\ formData.companyName = Acme
    /\ customers = << >>

\* C29: deleting a source label leaves the customer list and what is
\* stored of it as they are, and changes of the settings the label list
\* alone, which becomes the list without that label; a customer whose
\* source is the deleted label keeps it.
DeleteSourceKeepsCustomers ==
    [][last'.op = "deleteSource" =>
          /\ UNCHANGED customers
          /\ localStorage'[CustomersKey] = localStorage[CustomersKey]
          /\ \A k \in DOMAIN settings \ {"customerSources"} :
                settings'[k] = settings[k]
          /\ settings' # settings =>
                customerSources(settings')
                   = SelectSeq(customerSources(settings),
                               LAMBDA label : label # last'.text)]_vars

\* the label Google was deleted while a customer has it as its source
DeletedLabelOfCustomer ==
    /\ last.op = "deleteSource"
    /\ last.text = Google
    /\ Google \notin Range(customerSources(settings))
    /\ Len(customers) = 1
    /\ customers[1].source = Google

\* C30: while no current user is set (null or the empty string) no step
\* changes the customer list, the settings or what is stored of them, the
\* callback of a file read that was started before the user was switched
\* included; an identifier that is empty or only white space never becomes
\* the current user; and switching the user leaves customers and settings
\* as they are.
LoginGate ==
    [][/\ ~LoggedIn => UNCHANGED <<customers, settings, localStorage>>
       /\ (last'.op = "login" /\ Trim(last'.identifier) = << >>) =>
             UNCHANGED currentUser
       /\ LoggedIn' => Trim(currentUser'[1]) # << >>
       /\ last'.op = "switchUser" =>
             /\ ~LoggedIn'
             /\ UNCHANGED <<customers, settings, localStorage>>]_vars

====
